---- MODULE Spec2Model ----
(***************************************************************************)
(* bittwiddler: the pattern / fragment bit codec of openfpga, and its      *)
(* users (the bittwiddler tests and the XC2Macrocell layouts of xc2bit).    *)
(*                                                                         *)
(* A Pattern is a closed enumeration with a fixed-width bit-string per      *)
(* variant; a Fragment maps the bits of its Pattern fields onto cells of a  *)
(* caller-owned grid ("fuses") through offset + mirror coordinate           *)
(* arithmetic.  The codec is a set of pure functions over the borrowed      *)
(* grid; the state machines below draw the inputs of one call in Init and   *)
(* apply encode / decode to them.                                           *)
(***************************************************************************)
EXTENDS Integers, Sequences, FiniteSets, TLC

VARIABLES
    ty,        \* the Fragment type the call is made on
    variant,   \* the LayoutVariant type parameter of BitFragment<V>
    extra,     \* EncodeExtraType / DecodeExtraType value (JedLarge: buried flag)
    fuses0,    \* the grid as the caller supplied it
    fuses,     \* the grid now
    offset,    \* OffsettingType: one entry per dimension
    mirror,    \* MirroringType: one entry per dimension
    wild,      \* the bit the Pattern encoder puts at a wildcard position
    first,     \* of two encodes, the first one's value and the grid it left
    value,     \* the value given to encode
    result,    \* what decode returned
    writes,    \* the cells encode assigned: <<element, bit name, index>>
    reads,     \* the cells decode read: <<element, bit name, index>>
    pc,        \* "init" | "encoded" | "encode_panicked" | "decoded" | "decode_panicked"
               \* | "reencoded" | "reencode_panicked"
    pat,       \* Pattern codec calls: the Pattern
    pval,      \*   the variant given to encode
    parr,      \*   the bit vector (encode's output, decode's input)
    pres,      \*   what decode returned
    ppc,       \*   "init" | "encoded" | "supplied" | "redecoded" | "decoded" | "documented"
    docs,      \*   what docs_as_ascii_table returned
    input,          \* #[bitfragment]: the item's fields (their attributes) and the args
    field_i,        \*   fields handled so far
    errors_occurred,\*   the macro's errors_occurred flag
    emitted,        \*   the errors emit_error! reported
    obj_field_info, \*   per field handled, its patbits (Option<PatBitsInfo>)
    output,         \*   "none" | "impl" | "item" | "compile_error" | "panic"
    grids0,    \* concurrent calls: the grids as the callers supplied them
    grids,     \*   the grids now
    calls      \*   the calls under way

vars == <<ty, variant, extra, fuses0, fuses, offset, mirror, wild, first, value, result,
          writes, reads, pc, pat, pval, parr, pres, ppc, docs,
          input, field_i, errors_occurred, emitted, obj_field_info, output,
          grids0, grids, calls>>

fragVars == <<ty, variant, extra, fuses0, fuses, offset, mirror, wild, first, value, result,
              writes, reads, pc>>
patVars == <<pat, pval, parr, pres, ppc, docs>>
macroVars == <<input, field_i, errors_occurred, emitted, obj_field_info, output>>
concVars == <<grids0, grids, calls>>

----------------------------------------------------------------------------
\* Bounds of the model.

\* Grid cells beyond the extent of the layout, per dimension.
Slack == 1
\* XC2Macrocell values differ from Default in at most this many fields.
MaxChanged == 1
\* Grids of at most this many cells start with every content; larger ones
\* start all-false or all-true.
MaxEnumCells == 6
\* Width of usize / isize in the model (the casts wrap modulo 2^UsizeBits).
UsizeBits == 8
\* Synthetic two-bit Pattern declarations have at most this many variants.
MaxSynthVariants == 3
\* A grid or an offset is shifted by at most this many cells.
MaxShift == 2
\* A position expression has at most this many '!' and parentheses around it.
MaxNest == 3

----------------------------------------------------------------------------
\* Result<T, E> and a panic (index out of bounds, unreachable!()).

Ok(v) == [kind |-> "Ok", val |-> v]
Err(e) == [kind |-> "Err", val |-> e]
Panic == [kind |-> "Panic", val |-> "index out of bounds"]
NoResult == [kind |-> "None", val |-> "none"]

RECURSIVE Pow2(_)
Pow2(n) == IF n = 0 THEN 1 ELSE 2 * Pow2(n - 1)

\* usize::MAX + 1
UsizeModulus == Pow2(UsizeBits)

\* A cast that clamps a negative value to 0.
AsUsizeSaturating(x) == IF x < 0 THEN 0 ELSE x % UsizeModulus

\* `x as usize` of an isize: two's complement wrap.
AsUsize(x) == x % UsizeModulus

\* `x as isize` of a usize.
AsIsize(x) ==
    IF x % UsizeModulus >= UsizeModulus \div 2
    THEN (x % UsizeModulus) - UsizeModulus
    ELSE x % UsizeModulus

\* A function as the table of its values.
Table(f) == f @@ <<>>

Min(S) == CHOOSE x \in S : \A y \in S : x <= y
Max(S) == CHOOSE x \in S : \A y \in S : x >= y

----------------------------------------------------------------------------
\* Pattern declarations: the #[bits("...")] string of each variant, in
\* declaration order, one character per position.

\* A variant of a #[bitpattern] enum: its name (which stands for its value)
\* and its bit-string.
Variant(n, b) == [name |-> n, val |-> n, bits |-> b]

\* impl BitPattern<()> for bool: variantname and variantbits of false, true.
Bool ==
    [name |-> "bool",
     variants |-> << [name |-> "false", val |-> FALSE, bits |-> <<"0">>],
                     [name |-> "true", val |-> TRUE, bits |-> <<"1">>] >>]

MyEnum ==
    [name |-> "MyEnum",
     variants |-> << Variant("Choice1", <<"0", "0">>),
                     Variant("Choice2", <<"0", "1">>),
                     Variant("Choice3", <<"1", "0">>),
                     Variant("Choice4", <<"1", "1">>) >>]

XC2MCRegClkSrc ==
    [name |-> "XC2MCRegClkSrc",
     variants |-> << Variant("GCK0", <<"x", "0", "0">>),
                     Variant("GCK1", <<"x", "1", "0">>),
                     Variant("GCK2", <<"x", "0", "1">>),
                     Variant("PTC", <<"0", "1", "1">>),
                     Variant("CTC", <<"1", "1", "1">>) >>]

XC2MCRegResetSrc ==
    [name |-> "XC2MCRegResetSrc",
     variants |-> << Variant("Disabled", <<"1", "1">>),
                     Variant("PTA", <<"0", "0">>),
                     Variant("GSR", <<"0", "1">>),
                     Variant("CTR", <<"1", "0">>) >>]

XC2MCRegSetSrc ==
    [name |-> "XC2MCRegSetSrc",
     variants |-> << Variant("Disabled", <<"1", "1">>),
                     Variant("PTA", <<"0", "0">>),
                     Variant("GSR", <<"0", "1">>),
                     Variant("CTS", <<"1", "0">>) >>]

XC2MCRegMode ==
    [name |-> "XC2MCRegMode",
     variants |-> << Variant("DFF", <<"0", "0">>),
                     Variant("LATCH", <<"0", "1">>),
                     Variant("TFF", <<"1", "0">>),
                     Variant("DFFCE", <<"1", "1">>) >>]

XC2MCFeedbackMode ==
    [name |-> "XC2MCFeedbackMode",
     variants |-> << Variant("Disabled", <<"X", "1">>),
                     Variant("COMB", <<"0", "0">>),
                     Variant("REG", <<"1", "0">>) >>]

XC2MCXorMode ==
    [name |-> "XC2MCXorMode",
     variants |-> << Variant("ZERO", <<"0", "0">>),
                     Variant("ONE", <<"1", "1">>),
                     Variant("PTC", <<"1", "0">>),
                     Variant("PTCB", <<"0", "1">>) >>]

\* The #[bitpattern] enums of mc.rs.
McPatterns ==
    {XC2MCRegClkSrc, XC2MCRegResetSrc, XC2MCRegSetSrc, XC2MCRegMode,
     XC2MCFeedbackMode, XC2MCXorMode}

\* The Patterns the repository declares.
DeclaredPatterns == {Bool, MyEnum} \cup McPatterns

----------------------------------------------------------------------------
\* Pattern codec (BitPattern).

VARIANT_COUNT(p) == Len(p.variants)
BITS_COUNT(p) == Len(p.variants[1].bits)

variantname(p, var) == p.variants[var + 1].name
variantbits(p, var) == p.variants[var + 1].bits

\* variantdesc: for bool ["false", "true"][var]; for an enum the variant's doc
\* comment.
variantdesc(p, var) ==
    CASE p.name = "bool" -> <<"false", "true">>[var + 1]
      [] p.name = "XC2MCRegMode" ->
           <<"D-type flip-flop", "Transparent latch", "Toggle flip-flop",
             "D-type flip-flop with clock-enable pin">>[var + 1]
      [] p.name = "XC2MCXorMode" ->
           <<"A constant zero which results in this XOR outputting the value of the OR term",
             "A constant one which results in this XOR outputting the complement of the OR term",
             "XOR the OR term with the special product term C",
             "XNOR the OR term with the special product term C">>[var + 1]
      [] p.name \in {"Doc", "Named"} -> p.variants[var + 1].desc
      [] OTHER -> ""

\* The values of the Pattern's type.
PatValues(p) == {p.variants[i].val : i \in 1..VARIANT_COUNT(p)}

\* Index (0-based) of the variant a value is.
VariantOf(p, v) == CHOOSE var \in 0..(VARIANT_COUNT(p) - 1) : p.variants[var + 1].val = v

\* Bit names are the decimal position numbers "0", "1", ...
BitNameTable == <<"0", "1", "2", "3">>

\* Bit names in the reverse of the position order.
PosToNameReversed(p, pos) == BitNameTable[BITS_COUNT(p) - pos]

\* _pos_to_name: ["0", ...][pos]; an implementation written by hand (as
\* bool's is) returns the names it chooses, p.bitnames.
pos_to_name(p, pos) ==
    IF "bitnames" \in DOMAIN p THEN p.bitnames[pos + 1] ELSE BitNameTable[pos + 1]

\* _name_to_pos: match name { "0" => 0, ... }
name_to_pos(p, name) ==
    CASE name = "0" -> 0
      [] name = "1" -> 1
      [] name = "2" -> 2
      [] name = "3" -> 3

IsWildcard(c) == c \in {"x", "X"}

\* bool::encode: [*self]
BoolEncode(v) == <<v>>

\* A decode that returns the complement of the bit.
BoolDecodeNegated(bits) == IF Len(bits) >= 1 THEN Ok(~bits[1]) ELSE Panic

\* bool::decode: Ok(bits[0]); a slice with no element 0 panics.
BoolDecode(bits) == IF Len(bits) >= 1 THEN Ok(bits[1]) ELSE Panic

\* Generated encode of a #[bitpattern] enum: the variant's bit-string, with the
\* bit w[i] at wildcard position i.
EnumEncode(p, v, w) ==
    LET s == variantbits(p, VariantOf(p, v))
    IN [i \in 1..Len(s) |-> IF IsWildcard(s[i]) THEN w[i] ELSE s[i] = "1"]

\* A match that takes a wildcard character for a 0.
MatchesLiteral(s, bits) ==
    \A i \in 1..Len(s) : (s[i] = "1") = bits[i]

\* A variant matches iff every non-wildcard character equals the supplied bit.
Matches(s, bits) ==
    \A i \in 1..Len(s) : IsWildcard(s[i]) \/ ((s[i] = "1") = bits[i])

\* The variants (0-based) a bit vector matches.
Matching(p, bits) ==
    {var \in 0..(VARIANT_COUNT(p) - 1) : Matches(variantbits(p, var), bits)}

\* The error of a Pattern's decode (its ErrType value).
NoMatchingVariant(p) == <<"NoMatchingVariant", p.name>>

\* A scan that keeps the last matching variant.
LastMatch(S) == Max(S)

\* The variant decode picks among the matching ones: the first in declaration
\* order.
FirstMatch(S) == Min(S)

\* Generated decode of a #[bitpattern] enum.
EnumDecode(p, bits) ==
    IF Len(bits) < BITS_COUNT(p) THEN Panic
    ELSE IF Matching(p, bits) = {} THEN Err(NoMatchingVariant(p))
    ELSE Ok(p.variants[FirstMatch(Matching(p, bits)) + 1].val)

\* <T as BitPattern>::encode
PatEncode(p, v, w) == IF p.name = "bool" THEN BoolEncode(v) ELSE EnumEncode(p, v, w)

\* <T as BitPattern>::decode
PatDecode(p, bits) == IF p.name = "bool" THEN BoolDecode(bits) ELSE EnumDecode(p, bits)


----------------------------------------------------------------------------
\* Documentation renderer (BitPattern::docs_as_ascii_table).

\* s repeated n times.
RECURSIVE Repeat(_, _)
Repeat(str, n) == IF n <= 0 THEN "" ELSE str \o Repeat(str, n - 1)

\* The characters of a bit-string as a &'static str.
RECURSIVE BitString(_)
BitString(b) == IF b = <<>> THEN "" ELSE Head(b) \o BitString(Tail(b))

\* for i in 0..VARIANT_COUNT { if len(i) > max { max = len(i) } }, from the
\* i-th variant.
RECURSIVE MaxLenFrom(_, _, _, _)
MaxLenFrom(p, len(_, _), i, max) ==
    IF i >= VARIANT_COUNT(p) THEN max
    ELSE MaxLenFrom(p, len, i + 1, IF len(p, i) > max THEN len(p, i) ELSE max)

\* for x in 0..BITS_COUNT { ret.push_str(_pos_to_name(x)) }, from the x-th.
RECURSIVE HeaderNames(_, _)
HeaderNames(p, x) ==
    IF x >= BITS_COUNT(p) THEN "" ELSE pos_to_name(p, x) \o HeaderNames(p, x + 1)

\* A row that puts the padding before the name.
DataRowRightAligned(p, i, max_name_len) ==
    BitString(variantbits(p, i)) \o " | "
        \o Repeat(" ", max_name_len - Len(variantname(p, i))) \o variantname(p, i)
        \o " | " \o variantdesc(p, i) \o "\n"

\* The row of variant i: bits, name, padding up to max_name_len, description.
DataRow(p, i, max_name_len) ==
    BitString(variantbits(p, i)) \o " | "
        \o variantname(p, i) \o Repeat(" ", max_name_len - Len(variantname(p, i)))
        \o " | " \o variantdesc(p, i) \o "\n"

\* for i in 0..VARIANT_COUNT { ... }, from the i-th variant.
RECURSIVE DataRows(_, _, _)
DataRows(p, i, max_name_len) ==
    IF i >= VARIANT_COUNT(p) THEN ""
    ELSE DataRow(p, i, max_name_len) \o DataRows(p, i + 1, max_name_len)

\* docs_as_ascii_table
docs_as_ascii_table(p) ==
    LET max_name_len == MaxLenFrom(p, LAMBDA q, i : Len(variantname(q, i)), 0, 0)
        max_desc_len == MaxLenFrom(p, LAMBDA q, i : Len(variantdesc(q, i)), 0, 0)
    IN HeaderNames(p, 0) \o " | " \o Repeat(" ", max_name_len) \o " |\n"
       \o Repeat("-", BITS_COUNT(p)) \o "-+-" \o Repeat("-", max_name_len) \o "-+-"
       \o Repeat("-", max_desc_len) \o "\n"
       \o DataRows(p, 0, max_name_len)
----------------------------------------------------------------------------
\* Layout schema: what #[bitfragment] gathers from the attributes.

\* PatBitPos::Loc(Vec<isize>) and PatBitPos::Bool(bool)
Loc(l) == [kind |-> "Loc", locs |-> l, b |-> FALSE]
BoolPos(b) == [kind |-> "Bool", locs |-> <<>>, b |-> b]

\* struct PatBitInfo
PatBitInfo(inv, pos) == [invert |-> inv, pos |-> pos]

\* struct FieldInfo: the field's name, its Pattern type, its PatBitsInfo (bit
\* name -> PatBitInfo) and, per array element (one for a plain field), the
\* element offset given by #[arr_off].  names: the keys of patbits.
FieldInfo(n, p, bits, offs) ==
    [name_str |-> n, pat |-> p, patbits |-> Table(bits), arr_off |-> Table(offs),
     names |-> SelectSeq(BitNameTable, LAMBDA b : b \in DOMAIN bits),
     num_bits |-> Cardinality(DOMAIN bits)]

\* The (field, element) pairs of a field list in declaration / index order.
RECURSIVE ElemsFrom(_, _)
ElemsFrom(fields, fi) ==
    IF fi > Len(fields) THEN <<>>
    ELSE [ei \in 1..Len(fields[fi].arr_off) |-> <<fi, ei>>] \o ElemsFrom(fields, fi + 1)

\* Elements of the fields before field fi.
RECURSIVE ElemsBefore(_, _)
ElemsBefore(fields, fi) ==
    IF fi = 1 THEN 0 ELSE ElemsBefore(fields, fi - 1) + Len(fields[fi - 1].arr_off)

\* obj_field_info of a #[bitfragment(dimensions = n)] item.  elems: its
\* (field, element) pairs in order; base: per field, the elements before it.
Fragment(n, fields) ==
    [idx_dims |-> n, fields |-> fields, elems |-> ElemsFrom(fields, 1),
     base |-> Table([fi \in 1..Len(fields) |-> ElemsBefore(fields, fi)])]

\* The cells of a picture token: the bit name, whether it is inverted, and a
\* constant when the token is a "name=constant" setting.
TokName(t) ==
    CASE t \in {"0", "!0", "0=false", "0=true"} -> "0"
      [] t \in {"1", "!1", "1=false", "1=true"} -> "1"
      [] t \in {"2", "!2", "2=false", "2=true"} -> "2"
      [] OTHER -> "3"
TokInvert(t) == t \in {"!0", "!1", "!2", "!3"}
\* A reading of the picture that knows no "name=constant" cell.
TokIsConstNever(t) == FALSE

TokIsConst(t) == t \in {"0=false", "0=true", "1=false", "1=true", "2=false", "2=true"}
TokConst(t) == t \in {"0=true", "1=true", "2=true"}

\* The cells of a picture that are part of the field: column x of row y, both
\* from 0.
PictCells(pict) ==
    UNION {{<<x, y>> : x \in {i \in 0..(Len(pict[y + 1]) - 1) : pict[y + 1][i + 1] # "."}} :
              y \in 0..(Len(pict) - 1)}

\* A picture read without its rows: every cell is taken to be in row 0.
PictBitsOneRow(pict, idx_dims) ==
    LET cells == PictCells(pict)
        tok(c) == pict[c[2] + 1][c[1] + 1]
        names == {TokName(tok(c)) : c \in cells}
        cellOf(n) == CHOOSE c \in cells : TokName(tok(c)) = n
    IN [n \in names |->
          LET c == cellOf(n)
          IN IF TokIsConst(tok(c))
             THEN PatBitInfo(FALSE, BoolPos(TokConst(tok(c))))
             ELSE PatBitInfo(TokInvert(tok(c)),
                             Loc(IF idx_dims = 1 THEN <<c[1]>> ELSE <<c[1], 0>>))]

\* #[pat_pict]: the PatBitsInfo a picture stands for, the cell of a bit name
\* being the local position of that bit.
PictBits(pict, idx_dims) ==
    LET cells == PictCells(pict)
        tok(c) == pict[c[2] + 1][c[1] + 1]
        names == {TokName(tok(c)) : c \in cells}
        cellOf(n) == CHOOSE c \in cells : TokName(tok(c)) = n
    IN [n \in names |->
          LET c == cellOf(n)
          IN IF TokIsConst(tok(c))
             THEN PatBitInfo(FALSE, BoolPos(TokConst(tok(c))))
             ELSE PatBitInfo(TokInvert(tok(c)),
                             Loc(IF idx_dims = 1 THEN <<c[1]>> ELSE <<c[1], c[2]>>))]

\* A field that is no array: one element, at the field's own offset.
NoArray(idx_dims) == << [d \in 1..idx_dims |-> 0] >>

\* #[pat_pict(frag_variant = V, "...")] attributes of field clk_src, one picture per
\* frag_variant: rows of whitespace-separated cells.
clk_src_pict ==
  [ JedSmall |-> <<
        <<"0", ".", "1", "2", ".", ".", ".", ".", ".", ".", ".", ".", ".", ".", ".", ".", ".", ".", ".", ".", ".", ".", ".", ".", ".", ".", ".">>>>,
    JedLargeUnburied |-> <<
        <<"0", "1", "2", ".", ".", ".", ".", ".", ".", ".", ".", ".", ".", ".", ".", ".", ".", ".", ".", ".", ".", ".", ".", ".", ".", ".", ".", ".", ".">>>>,
    JedLargeBuried |-> <<
        <<"0", "1", "2", ".", ".", ".", ".", ".", ".", ".", ".", ".", ".", ".", ".", ".">>>>,
    Crbit32 |-> <<
        <<"0", ".", "1", "2", ".", ".", ".", ".", ".">>,
        <<".", ".", ".", ".", ".", ".", ".", ".", ".">>,
        <<".", ".", ".", ".", ".", ".", ".", ".", ".">>>>,
    Crbit64 |-> <<
        <<".", ".", ".", ".", ".", "1", "2", ".", "0">>,
        <<".", ".", ".", ".", ".", ".", ".", ".", ".">>,
        <<".", ".", ".", ".", ".", ".", ".", ".", ".">>>>,
    Crbit256 |-> <<
        <<".", ".", ".", ".", ".", ".", ".", "1", "2", "0">>,
        <<".", ".", ".", ".", ".", ".", ".", ".", ".", ".">>,
        <<".", ".", ".", ".", ".", ".", ".", ".", ".", ".">>>>,
    CrbitLarge |-> <<
        <<".", ".", ".", ".", ".", ".", ".", ".", "0", "1", "2", ".", ".", ".", ".">>,
        <<".", ".", ".", ".", ".", ".", ".", ".", ".", ".", ".", ".", ".", ".", ".">>>> ]

\* #[pat_pict(frag_variant = V, "...")] attributes of field clk_invert_pol, one picture per
\* frag_variant: rows of whitespace-separated cells.
clk_invert_pol_pict ==
  [ JedSmall |-> <<
        <<".", "0", ".", ".", ".", ".", ".", ".", ".", ".", ".", ".", ".", ".", ".", ".", ".", ".", ".", ".", ".", ".", ".", ".", ".", ".", ".">>>>,
    JedLargeUnburied |-> <<
        <<".", ".", ".", ".", "0", ".", ".", ".", ".", ".", ".", ".", ".", ".", ".", ".", ".", ".", ".", ".", ".", ".", ".", ".", ".", ".", ".", ".", ".">>>>,
    JedLargeBuried |-> <<
        <<".", ".", ".", ".", "0", ".", ".", ".", ".", ".", ".", ".", ".", ".", ".", ".">>>>,
    Crbit32 |-> <<
        <<".", "0", ".", ".", ".", ".", ".", ".", ".">>,
        <<".", ".", ".", ".", ".", ".", ".", ".", ".">>,
        <<".", ".", ".", ".", ".", ".", ".", ".", ".">>>>,
    Crbit64 |-> <<
        <<".", ".", ".", ".", ".", ".", ".", "0", ".">>,
        <<".", ".", ".", ".", ".", ".", ".", ".", ".">>,
        <<".", ".", ".", ".", ".", ".", ".", ".", ".">>>>,
    Crbit256 |-> <<
        <<".", ".", ".", ".", ".", "0", ".", ".", ".", ".">>,
        <<".", ".", ".", ".", ".", ".", ".", ".", ".", ".">>,
        <<".", ".", ".", ".", ".", ".", ".", ".", ".", ".">>>>,
    CrbitLarge |-> <<
        <<".", ".", ".", ".", ".", ".", ".", ".", ".", ".", ".", ".", "0", ".", ".">>,
        <<".", ".", ".", ".", ".", ".", ".", ".", ".", ".", ".", ".", ".", ".", ".">>>> ]

\* #[pat_pict(frag_variant = V, "...")] attributes of field is_ddr, one picture per
\* frag_variant: rows of whitespace-separated cells.
is_ddr_pict ==
  [ JedSmall |-> <<
        <<".", ".", ".", ".", "0", ".", ".", ".", ".", ".", ".", ".", ".", ".", ".", ".", ".", ".", ".", ".", ".", ".", ".", ".", ".", ".", ".">>>>,
    JedLargeUnburied |-> <<
        <<".", ".", ".", "0", ".", ".", ".", ".", ".", ".", ".", ".", ".", ".", ".", ".", ".", ".", ".", ".", ".", ".", ".", ".", ".", ".", ".", ".", ".">>>>,
    JedLargeBuried |-> <<
        <<".", ".", ".", "0", ".", ".", ".", ".", ".", ".", ".", ".", ".", ".", ".", ".">>>>,
    Crbit32 |-> <<
        <<".", ".", ".", ".", "0", ".", ".", ".", ".">>,
        <<".", ".", ".", ".", ".", ".", ".", ".", ".">>,
        <<".", ".", ".", ".", ".", ".", ".", ".", ".">>>>,
    Crbit64 |-> <<
        <<".", ".", ".", ".", "0", ".", ".", ".", ".">>,
        <<".", ".", ".", ".", ".", ".", ".", ".", ".">>,
        <<".", ".", ".", ".", ".", ".", ".", ".", ".">>>>,
    Crbit256 |-> <<
        <<".", ".", ".", ".", ".", ".", "0", ".", ".", ".">>,
        <<".", ".", ".", ".", ".", ".", ".", ".", ".", ".">>,
        <<".", ".", ".", ".", ".", ".", ".", ".", ".", ".">>>>,
    CrbitLarge |-> <<
        <<".", ".", ".", ".", ".", ".", ".", ".", ".", ".", ".", "0", ".", ".", ".">>,
        <<".", ".", ".", ".", ".", ".", ".", ".", ".", ".", ".", ".", ".", ".", ".">>>> ]

\* #[pat_pict(frag_variant = V, "...")] attributes of field r_src, one picture per
\* frag_variant: rows of whitespace-separated cells.
r_src_pict ==
  [ JedSmall |-> <<
        <<".", ".", ".", ".", ".", "0", "1", ".", ".", ".", ".", ".", ".", ".", ".", ".", ".", ".", ".", ".", ".", ".", ".", ".", ".", ".", ".">>>>,
    JedLargeUnburied |-> <<
        <<".", ".", ".", ".", ".", ".", ".", ".", ".", ".", ".", ".", ".", ".", ".", ".", ".", ".", ".", ".", ".", ".", ".", "0", "1", ".", ".", ".", ".">>>>,
    JedLargeBuried |-> <<
        <<".", ".", ".", ".", ".", ".", ".", ".", ".", ".", ".", ".", "0", "1", ".", ".">>>>,
    Crbit32 |-> <<
        <<".", ".", ".", ".", ".", "0", "1", ".", ".">>,
        <<".", ".", ".", ".", ".", ".", ".", ".", ".">>,
        <<".", ".", ".", ".", ".", ".", ".", ".", ".">>>>,
    Crbit64 |-> <<
        <<".", ".", "0", "1", ".", ".", ".", ".", ".">>,
        <<".", ".", ".", ".", ".", ".", ".", ".", ".">>,
        <<".", ".", ".", ".", ".", ".", ".", ".", ".">>>>,
    Crbit256 |-> <<
        <<".", ".", ".", ".", ".", ".", ".", ".", ".", ".">>,
        <<".", ".", ".", ".", ".", ".", ".", ".", ".", ".">>,
        <<".", ".", ".", ".", "0", "1", ".", ".", ".", ".">>>>,
    CrbitLarge |-> <<
        <<".", ".", ".", ".", ".", ".", ".", ".", ".", ".", ".", ".", ".", ".", ".">>,
        <<".", ".", ".", ".", ".", ".", ".", ".", ".", ".", ".", "0", "1", ".", ".">>>> ]

\* #[pat_pict(frag_variant = V, "...")] attributes of field s_src, one picture per
\* frag_variant: rows of whitespace-separated cells.
s_src_pict ==
  [ JedSmall |-> <<
        <<".", ".", ".", ".", ".", ".", ".", "0", "1", ".", ".", ".", ".", ".", ".", ".", ".", ".", ".", ".", ".", ".", ".", ".", ".", ".", ".">>>>,
    JedLargeUnburied |-> <<
        <<".", ".", ".", ".", ".", ".", ".", ".", ".", ".", ".", ".", ".", ".", ".", ".", ".", "0", "1", ".", ".", ".", ".", ".", ".", ".", ".", ".", ".">>>>,
    JedLargeBuried |-> <<
        <<".", ".", ".", ".", ".", ".", ".", "0", "1", ".", ".", ".", ".", ".", ".", ".">>>>,
    Crbit32 |-> <<
        <<".", ".", ".", ".", ".", ".", ".", "0", "1">>,
        <<".", ".", ".", ".", ".", ".", ".", ".", ".">>,
        <<".", ".", ".", ".", ".", ".", ".", ".", ".">>>>,
    Crbit64 |-> <<
        <<"0", "1", ".", ".", ".", ".", ".", ".", ".">>,
        <<".", ".", ".", ".", ".", ".", ".", ".", ".">>,
        <<".", ".", ".", ".", ".", ".", ".", ".", ".">>>>,
    Crbit256 |-> <<
        <<".", ".", ".", ".", ".", ".", ".", ".", ".", ".">>,
        <<".", "0", "1", ".", ".", ".", ".", ".", ".", ".">>,
        <<".", ".", ".", ".", ".", ".", ".", ".", ".", ".">>>>,
    CrbitLarge |-> <<
        <<".", ".", ".", ".", ".", ".", ".", ".", ".", ".", ".", ".", ".", ".", ".">>,
        <<".", ".", ".", ".", ".", ".", ".", ".", ".", ".", ".", ".", ".", "0", "1">>>> ]

\* #[pat_pict(frag_variant = V, "...")] attributes of field init_state, one picture per
\* frag_variant: rows of whitespace-separated cells.
init_state_pict ==
  [ JedSmall |-> <<
        <<".", ".", ".", ".", ".", ".", ".", ".", ".", ".", ".", ".", ".", ".", ".", ".", ".", ".", ".", ".", ".", ".", ".", ".", ".", ".", "!0">>>>,
    JedLargeUnburied |-> <<
        <<".", ".", ".", ".", ".", ".", ".", ".", ".", ".", ".", ".", ".", ".", ".", ".", ".", ".", ".", "!0", ".", ".", ".", ".", ".", ".", ".", ".", ".">>>>,
    JedLargeBuried |-> <<
        <<".", ".", ".", ".", ".", ".", ".", ".", ".", "!0", ".", ".", ".", ".", ".", ".">>>>,
    Crbit32 |-> <<
        <<".", ".", ".", ".", ".", ".", ".", ".", ".">>,
        <<".", ".", ".", ".", ".", ".", ".", ".", ".">>,
        <<".", ".", ".", ".", ".", ".", ".", ".", "!0">>>>,
    Crbit64 |-> <<
        <<".", ".", ".", ".", ".", ".", ".", ".", ".">>,
        <<".", ".", ".", ".", ".", ".", ".", ".", ".">>,
        <<"!0", ".", ".", ".", ".", ".", ".", ".", ".">>>>,
    Crbit256 |-> <<
        <<".", ".", ".", ".", ".", ".", ".", ".", ".", ".">>,
        <<"!0", ".", ".", ".", ".", ".", ".", ".", ".", ".">>,
        <<".", ".", ".", ".", ".", ".", ".", ".", ".", ".">>>>,
    CrbitLarge |-> <<
        <<".", ".", ".", ".", ".", ".", ".", ".", ".", ".", ".", ".", ".", ".", "!0">>,
        <<".", ".", ".", ".", ".", ".", ".", ".", ".", ".", ".", ".", ".", ".", ".">>>> ]

\* #[pat_pict(frag_variant = V, "...")] attributes of field reg_mode, one picture per
\* frag_variant: rows of whitespace-separated cells.
reg_mode_pict ==
  [ JedSmall |-> <<
        <<".", ".", ".", ".", ".", ".", ".", ".", ".", "0", "1", ".", ".", ".", ".", ".", ".", ".", ".", ".", ".", ".", ".", ".", ".", ".", ".">>>>,
    JedLargeUnburied |-> <<
        <<".", ".", ".", ".", ".", ".", ".", ".", ".", ".", ".", ".", ".", ".", ".", ".", ".", ".", ".", ".", ".", "0", "1", ".", ".", ".", ".", ".", ".">>>>,
    JedLargeBuried |-> <<
        <<".", ".", ".", ".", ".", ".", ".", ".", ".", ".", "0", "1", ".", ".", ".", ".">>>>,
    Crbit32 |-> <<
        <<".", ".", ".", ".", ".", ".", ".", ".", ".">>,
        <<"0", "1", ".", ".", ".", ".", ".", ".", ".">>,
        <<".", ".", ".", ".", ".", ".", ".", ".", ".">>>>,
    Crbit64 |-> <<
        <<".", ".", ".", ".", ".", ".", ".", ".", ".">>,
        <<".", ".", ".", ".", ".", ".", ".", "0", "1">>,
        <<".", ".", ".", ".", ".", ".", ".", ".", ".">>>>,
    Crbit256 |-> <<
        <<".", ".", ".", ".", ".", ".", ".", ".", ".", ".">>,
        <<".", ".", ".", ".", ".", ".", ".", ".", ".", ".">>,
        <<".", ".", ".", ".", ".", ".", "0", "1", ".", ".">>>>,
    CrbitLarge |-> <<
        <<".", ".", ".", ".", ".", ".", ".", ".", ".", ".", ".", ".", ".", ".", ".">>,
        <<".", ".", ".", ".", ".", ".", ".", ".", ".", "0", "1", ".", ".", ".", ".">>>> ]

\* #[pat_pict(frag_variant = V, "...")] attributes of field fb_mode, one picture per
\* frag_variant: rows of whitespace-separated cells.
fb_mode_pict ==
  [ JedSmall |-> <<
        <<".", ".", ".", ".", ".", ".", ".", ".", ".", ".", ".", ".", ".", "0", "1", ".", ".", ".", ".", ".", ".", ".", ".", ".", ".", ".", ".">>>>,
    JedLargeUnburied |-> <<
        <<".", ".", ".", ".", ".", ".", "0", "1", ".", ".", ".", ".", ".", ".", ".", ".", ".", ".", ".", ".", ".", ".", ".", ".", ".", ".", ".", ".", ".">>>>,
    JedLargeBuried |-> <<
        <<".", ".", ".", ".", ".", "0", "1", ".", ".", ".", ".", ".", ".", ".", ".", ".">>>>,
    Crbit32 |-> <<
        <<".", ".", ".", ".", ".", ".", ".", ".", ".">>,
        <<".", ".", ".", ".", "0", "1", ".", ".", ".">>,
        <<".", ".", ".", ".", ".", ".", ".", ".", ".">>>>,
    Crbit64 |-> <<
        <<".", ".", ".", ".", ".", ".", ".", ".", ".">>,
        <<".", ".", ".", "0", "1", ".", ".", ".", ".">>,
        <<".", ".", ".", ".", ".", ".", ".", ".", ".">>>>,
    Crbit256 |-> <<
        <<".", ".", "0", "1", ".", ".", ".", ".", ".", ".">>,
        <<".", ".", ".", ".", ".", ".", ".", ".", ".", ".">>,
        <<".", ".", ".", ".", ".", ".", ".", ".", ".", ".">>>>,
    CrbitLarge |-> <<
        <<".", ".", "0", "1", ".", ".", ".", ".", ".", ".", ".", ".", ".", ".", ".">>,
        <<".", ".", ".", ".", ".", ".", ".", ".", ".", ".", ".", ".", ".", ".", ".">>>> ]

\* #[pat_pict(frag_variant = V, "...")] attributes of field ff_in_ibuf, one picture per
\* frag_variant: rows of whitespace-separated cells.
ff_in_ibuf_pict ==
  [ JedSmall |-> <<
        <<".", ".", ".", ".", ".", ".", ".", ".", ".", ".", ".", ".", ".", ".", ".", "!0", ".", ".", ".", ".", ".", ".", ".", ".", ".", ".", ".">>>>,
    JedLargeUnburied |-> <<
        <<".", ".", ".", ".", ".", ".", ".", ".", ".", ".", "!0", ".", ".", ".", ".", ".", ".", ".", ".", ".", ".", ".", ".", ".", ".", ".", ".", ".", ".">>>>,
    JedLargeBuried |-> <<
        <<>>,
        <<"0=false">>>>,
    Crbit32 |-> <<
        <<".", ".", ".", ".", ".", ".", ".", ".", ".">>,
        <<".", ".", ".", ".", ".", ".", "!0", ".", ".">>,
        <<".", ".", ".", ".", ".", ".", ".", ".", ".">>>>,
    Crbit64 |-> <<
        <<".", ".", ".", ".", ".", ".", ".", ".", ".">>,
        <<".", ".", "!0", ".", ".", ".", ".", ".", ".">>,
        <<".", ".", ".", ".", ".", ".", ".", ".", ".">>>>,
    Crbit256 |-> <<
        <<".", ".", ".", ".", ".", ".", ".", ".", ".", ".">>,
        <<".", ".", ".", ".", ".", ".", ".", ".", ".", "!0">>,
        <<".", ".", ".", ".", ".", ".", ".", ".", ".", ".">>>>,
    CrbitLarge |-> <<
        <<".", ".", ".", ".", ".", ".", ".", ".", ".", ".", ".", ".", ".", "!0", ".">>,
        <<".", ".", ".", ".", ".", ".", ".", ".", ".", ".", ".", ".", ".", ".", ".">>>> ]

\* #[pat_pict(frag_variant = V, "...")] attributes of field xor_mode, one picture per
\* frag_variant: rows of whitespace-separated cells.
xor_mode_pict ==
  [ JedSmall |-> <<
        <<".", ".", ".", ".", ".", ".", ".", ".", ".", ".", ".", ".", ".", ".", ".", ".", ".", "0", "1", ".", ".", ".", ".", ".", ".", ".", ".">>>>,
    JedLargeUnburied |-> <<
        <<".", ".", ".", ".", ".", ".", ".", ".", ".", ".", ".", ".", ".", ".", ".", ".", ".", ".", ".", ".", ".", ".", ".", ".", ".", ".", ".", "0", "1">>>>,
    JedLargeBuried |-> <<
        <<".", ".", ".", ".", ".", ".", ".", ".", ".", ".", ".", ".", ".", ".", "0", "1">>>>,
    Crbit32 |-> <<
        <<".", ".", ".", ".", ".", ".", ".", ".", ".">>,
        <<".", ".", ".", ".", ".", ".", ".", ".", "0">>,
        <<"1", ".", ".", ".", ".", ".", ".", ".", ".">>>>,
    Crbit64 |-> <<
        <<".", ".", ".", ".", ".", ".", ".", ".", ".">>,
        <<".", ".", ".", ".", ".", ".", ".", ".", ".">>,
        <<".", ".", ".", ".", ".", ".", ".", "0", "1">>>>,
    Crbit256 |-> <<
        <<".", ".", ".", ".", ".", ".", ".", ".", ".", ".">>,
        <<".", ".", ".", ".", ".", ".", ".", ".", ".", ".">>,
        <<"0", "1", ".", ".", ".", ".", ".", ".", ".", ".">>>>,
    CrbitLarge |-> <<
        <<".", ".", ".", ".", ".", ".", ".", ".", ".", ".", ".", ".", ".", ".", ".">>,
        <<"0", "1", ".", ".", ".", ".", ".", ".", ".", ".", ".", ".", ".", ".", ".">>>> ]

\* The frag_variant tags XC2Macrocell has a #[bitfragment(variant = ...)] for.
GeneratedVariants ==
    {"JedSmall", "JedLargeUnburied", "JedLargeBuried",
     "Crbit32", "Crbit64", "Crbit256", "CrbitLarge"}

\* #[bitfragment(variant = V, dimensions = n)]
VariantDims(v) == IF v \in {"Crbit32", "Crbit64", "Crbit256", "CrbitLarge"} THEN 2 ELSE 1

\* struct XC2Macrocell under each generated LayoutVariant.
XC2Macrocell ==
    Table([v \in GeneratedVariants |->
        LET n == VariantDims(v)
            F(name, p, pict) == FieldInfo(name, p, PictBits(pict[v], n), NoArray(n))
        IN Fragment(n,
        << F("clk_src", XC2MCRegClkSrc, clk_src_pict),
                          F("clk_invert_pol", Bool, clk_invert_pol_pict),
                          F("is_ddr", Bool, is_ddr_pict),
                          F("r_src", XC2MCRegResetSrc, r_src_pict),
                          F("s_src", XC2MCRegSetSrc, s_src_pict),
                          F("init_state", Bool, init_state_pict),
                          F("reg_mode", XC2MCRegMode, reg_mode_pict),
                          F("fb_mode", XC2MCFeedbackMode, fb_mode_pict),
                          F("ff_in_ibuf", Bool, ff_in_ibuf_pict),
                          F("xor_mode", XC2MCXorMode, xor_mode_pict) >>)])

\* The #[pat_pict] pictures of the fields of XC2Macrocell for frag_variant v,
\* in declaration order of the fields.
Pictures(v) ==
    << clk_src_pict[v], clk_invert_pol_pict[v], is_ddr_pict[v], r_src_pict[v],
       s_src_pict[v], init_state_pict[v], reg_mode_pict[v], fb_mode_pict[v],
       ff_in_ibuf_pict[v], xor_mode_pict[v] >>

\* impl Default for XC2Macrocell
Default ==
    << <<"GCK0">>, <<FALSE>>, <<FALSE>>, <<"Disabled">>, <<"Disabled">>, <<TRUE>>,
       <<"DFF">>, <<"Disabled">>, <<FALSE>>, <<"ZERO">> >>

\* #[pat_bits("0" = 1, "1" = 2)]
MyEnumBits ==
    [n \in {"0", "1"} |->
        IF n = "0" THEN PatBitInfo(FALSE, Loc(<<1>>)) ELSE PatBitInfo(FALSE, Loc(<<2>>))]

\* #[bitfragment(dimensions = 1)] enum MyEnum
MyEnumFrag ==
    Fragment(1,
        << FieldInfo("MyEnum", MyEnum, MyEnumBits, NoArray(1)) >>)

\* const DIM1, const DIM2: the array lengths of MyStruct1::field_enum.
DIM1 == 2
DIM2 == 3

\* #[bitfragment(dimensions = 1)] struct MyStruct1: field_enum is
\* [[[MyEnum; DIM1]; 1]; DIM2] with #[arr_off(|i| [i * 2])], field_bool is
\* [bool; 1] with #[arr_off(|_| [0])].
MyStruct1 ==
    Fragment(1,
        << FieldInfo("field_enum", MyEnum, MyEnumBits,
                     [i \in 1..(DIM1 * 1 * DIM2) |-> <<(i - 1) * 2>>]),
           FieldInfo("field_bool", Bool,
                     [n \in {"0"} |-> PatBitInfo(FALSE, Loc(<<0>>))],
                     [i \in 1..1 |-> <<0>>]) >>)

\* Patterns and a Fragment outside the repository's own: bit vectors no
\* variant matches, an inverted bit, a constant bit and an array.
SynthA ==
    [name |-> "SynthA",
     variants |-> << Variant("A0", <<"1", "x">>),
                     Variant("A1", <<"x", "1">>) >>]

SynthB ==
    [name |-> "SynthB",
     variants |-> << Variant("B0", <<"0", "1">>),
                     Variant("B1", <<"1", "0">>) >>]

\* #[bitfragment(dimensions = 1)] struct SynthStruct {
\*     #[pat_bits("0" = !0, "1" = false)] a: SynthA,
\*     #[pat_bits("0" = 1, "1" = 2)] #[arr_off(|i| [i * 2])] b: [SynthB; 2] }
SynthStruct ==
    Fragment(1,
        << FieldInfo("a", SynthA,
                     [n \in {"0", "1"} |->
                         IF n = "0" THEN PatBitInfo(TRUE, Loc(<<0>>))
                         ELSE PatBitInfo(FALSE, BoolPos(FALSE))],
                     NoArray(1)),
           FieldInfo("b", SynthB,
                     [n \in {"0", "1"} |->
                         IF n = "0" THEN PatBitInfo(FALSE, Loc(<<1>>))
                         ELSE PatBitInfo(FALSE, Loc(<<2>>))],
                     [i \in 1..2 |-> <<(i - 1) * 2>>]) >>)

\* #[bitfragment(dimensions = 1)] struct SynthConst {
\*     #[pat_bits("0" = !1, "1" = !true)] a: SynthB,
\*     #[pat_bits("0" = 0, "1" = !false)] b: SynthB }
SynthConst ==
    Fragment(1,
        << FieldInfo("a", SynthB,
                     [n \in {"0", "1"} |->
                         IF n = "0" THEN PatBitInfo(TRUE, Loc(<<1>>))
                         ELSE PatBitInfo(TRUE, BoolPos(TRUE))],
                     NoArray(1)),
           FieldInfo("b", SynthB,
                     [n \in {"0", "1"} |->
                         IF n = "0" THEN PatBitInfo(FALSE, Loc(<<0>>))
                         ELSE PatBitInfo(TRUE, BoolPos(FALSE))],
                     NoArray(1)) >>)

\* #[bitfragment(dimensions = 1)] struct SynthPartial {
\*     #[pat_bits("0" = 0)] a: SynthB }
SynthPartial ==
    Fragment(1,
        << FieldInfo("a", SynthB,
                     [n \in {"0"} |-> PatBitInfo(FALSE, Loc(<<0>>))],
                     NoArray(1)) >>)

----------------------------------------------------------------------------
\* The grid (fuse storage): a slice of bools for one dimension (index usize),
\* an array of such for two (index [usize; 2]).  len: cells per dimension;
\* cell: the content, cell[i + 1] or cell[i + 1][j + 1] for index i or [i, j].
Grid(len, cell) == [len |-> len, cell |-> cell]

\* The bounds check of an index.
InGrid(grid, idx) == \A d \in 1..Len(idx) : idx[d] < grid.len[d]

\* Index::index within bounds.
GridGet(grid, idx) ==
    IF Len(idx) = 1 THEN grid.cell[idx[1] + 1] ELSE grid.cell[idx[1] + 1][idx[2] + 1]

\* An assignment that keeps the cell's content when b is false and flips it
\* when b is true.
GridSetToggled(grid, idx, b) ==
    IF Len(idx) = 1 THEN [grid EXCEPT !.cell[idx[1] + 1] = (@ # b)]
    ELSE [grid EXCEPT !.cell[idx[1] + 1][idx[2] + 1] = (@ # b)]

\* IndexMut::index_mut within bounds, assigned b.
GridSet(grid, idx, b) ==
    IF Len(idx) = 1 THEN [grid EXCEPT !.cell[idx[1] + 1] = b]
    ELSE [grid EXCEPT !.cell[idx[1] + 1][idx[2] + 1] = b]

----------------------------------------------------------------------------
\* Fragment codec: the code #[bitfragment] generates.

\* The bit names of a field's PatBitsInfo in the order the generated code
\* handles them (the HashMap's iteration order: ascending here, or descending).
Reverse(q) == [i \in 1..Len(q) |-> q[Len(q) + 1 - i]]

BitOrder(f, rev) == IF rev THEN Reverse(f.names) ELSE f.names

\* An element offset that is added whatever the mirror.
ElemOffsetUnmirrored(f, ei, off, mir) ==
    Table([d \in 1..Len(off) |-> off[d] + f.arr_off[ei][d]])

\* Offset of array element ei of a field: the call's offset plus the element
\* offset, mirrored like a bit position.
ElemOffset(f, ei, off, mir) ==
    Table([d \in 1..Len(off) |-> off[d] + (IF mir[d] THEN -1 ELSE 1) * f.arr_off[ei][d]])

\* A mirror that reflects about the cell before the origin.
EncodeEachDimShifted(off, mir, locs, dim) ==
    AsUsize(AsIsize(off[dim]) + (IF mir[dim] THEN -1 - locs[dim] ELSE locs[dim]))

\* A coordinate that ignores the bit's position.
EncodeEachDimCollapsed(off, mir, locs, dim) == AsUsize(AsIsize(off[dim]))

\* A coordinate that ignores mirror.
EncodeEachDimUnmirrored(off, mir, locs, dim) ==
    AsUsize(AsIsize(off[dim]) + locs[dim])

\* ((offset[dim] as isize) + (if mirror[dim] {-1} else {1}) * loc) as usize,
\* in encode.
EncodeEachDim(off, mir, locs, dim) ==
    AsUsize(AsIsize(off[dim]) + (IF mir[dim] THEN -1 ELSE 1) * locs[dim])

\* A coordinate that ignores mirror, in decode.
DecodeEachDimUnmirrored(off, mir, locs, dim) ==
    AsUsize(AsIsize(off[dim]) + locs[dim])

\* The same expression in decode.
DecodeEachDim(off, mir, locs, dim) ==
    AsUsize(AsIsize(off[dim]) + (IF mir[dim] THEN -1 ELSE 1) * locs[dim])

\* fuses[...] index of a bit in encode.
EncodeIndex(idx_dims, off, mir, locs) ==
    [dim \in 1..idx_dims |-> EncodeEachDim(off, mir, locs, dim)]

\* fuses[...] index of a bit in decode.
DecodeIndex(idx_dims, off, mir, locs) ==
    [dim \in 1..idx_dims |-> DecodeEachDim(off, mir, locs, dim)]

\* An entry's "!" left out.
InvTokenDropped(invert, x) == x

\* #inv_token x
InvToken(invert, x) == IF invert THEN ~x ELSE x

\* encode_each_bit of element k, per bit in the order handled:
\*   if let PatBitPos::Loc(locs):
\*       fuses[index] = #inv_token encoded_arr[_name_to_pos(bitname)];
\* loc: the bit's position is a Loc; oob: encoded_arr has no such index.
EncodeEachBit(idx_dims, f, k, encoded_arr, off, mir, rev) ==
    LET names == BitOrder(f, rev)
    IN Table([i \in 1..Len(names) |->
          LET bi == f.patbits[names[i]]
              pos == name_to_pos(f.pat, names[i])
          IN IF bi.pos.kind # "Loc"
             THEN [loc |-> FALSE, elem |-> k, name |-> names[i],
                   idx |-> <<>>, oob |-> FALSE, bit |-> FALSE]
             ELSE [loc |-> TRUE, elem |-> k, name |-> names[i],
                   idx |-> EncodeIndex(idx_dims, off, mir, bi.pos.locs),
                   oob |-> pos >= Len(encoded_arr),
                   bit |-> IF pos >= Len(encoded_arr) THEN FALSE
                           ELSE InvToken(bi.invert, encoded_arr[pos + 1])]])

\* encode_fields: the assignments of a whole value, field by field and
\* element by element.
RECURSIVE EncodeFields(_, _, _, _, _, _, _)
EncodeFields(s, val, off, mir, w, rev, k) ==
    IF k > Len(s.elems) THEN <<>>
    ELSE LET fi == s.elems[k][1]
             ei == s.elems[k][2]
             f == s.fields[fi]
             encoded_arr == Table(PatEncode(f.pat, val[fi][ei], w))
         IN EncodeEachBit(s.idx_dims, f, k, encoded_arr, ElemOffset(f, ei, off, mir), mir, rev)
            \o EncodeFields(s, val, off, mir, w, rev, k + 1)

\* The assignments in order on a grid: one outside the grid panics and leaves
\* the earlier ones in place.  done: the cells assigned so far.
RECURSIVE RunWrites(_, _, _, _)
RunWrites(grid, ws, i, done) ==
    IF i > Len(ws) THEN [fuses |-> grid, panicked |-> FALSE, writes |-> done]
    ELSE IF ~ws[i].loc THEN RunWrites(grid, ws, i + 1, done)
    ELSE IF ws[i].oob \/ ~InGrid(grid, ws[i].idx)
         THEN [fuses |-> grid, panicked |-> TRUE, writes |-> done]
    ELSE RunWrites(GridSet(grid, ws[i].idx, ws[i].bit), ws, i + 1,
                   done \cup {<<ws[i].elem, ws[i].name, ws[i].idx>>})

\* An encode that clears the grid before it assigns.
GenEncodeCleared(s, val, grid, off, mir, w, rev) ==
    RunWrites(Grid(grid.len, IF Len(grid.len) = 1
                             THEN [i \in 1..grid.len[1] |-> FALSE]
                             ELSE [i \in 1..grid.len[1] |-> [j \in 1..grid.len[2] |-> FALSE]]),
              EncodeFields(s, val, off, mir, w, rev, 1), 1, {})

\* Generated BitFragment::encode.
GenEncode(s, val, grid, off, mir, w, rev) ==
    RunWrites(grid, EncodeFields(s, val, off, mir, w, rev, 1), 1, {})

\* The outcome of a decode step: res is Ok(..), Err(..) or Panic, reads the
\* cells read.
Outcome(res, done) == [res |-> res, reads |-> done]

\* decode_each_bit of element k, from the i-th bit in the order handled:
\*   decode_arr[_name_to_pos(bitname)] = #inv_token fuses[index]   (Loc)
\*   decode_arr[_name_to_pos(bitname)] = #inv_token b              (Bool)
\* A cell outside the grid, or a position outside decode_arr, panics.
RECURSIVE DecodeBits(_, _, _, _, _, _, _, _, _, _)
DecodeBits(idx_dims, f, k, grid, off, mir, names, i, decode_arr, done) ==
    IF i > Len(names) THEN Outcome(Ok(decode_arr), done)
    ELSE LET bi == f.patbits[names[i]]
             pos == name_to_pos(f.pat, names[i])
             index == DecodeIndex(idx_dims, off, mir, bi.pos.locs)
         IN IF bi.pos.kind = "Loc"
            THEN IF ~InGrid(grid, index) THEN Outcome(Panic, done)
                 ELSE IF pos >= Len(decode_arr)
                      THEN Outcome(Panic, done \cup {<<k, names[i], index>>})
                 ELSE DecodeBits(idx_dims, f, k, grid, off, mir, names, i + 1,
                          [decode_arr EXCEPT
                              ![pos + 1] = InvToken(bi.invert, GridGet(grid, index))],
                          done \cup {<<k, names[i], index>>})
            ELSE IF pos >= Len(decode_arr) THEN Outcome(Panic, done)
                 ELSE DecodeBits(idx_dims, f, k, grid, off, mir, names, i + 1,
                          [decode_arr EXCEPT ![pos + 1] = InvToken(bi.invert, bi.pos.b)],
                          done)

\* decode_each_bit: let mut decode_arr = [false; num_bits]; then each bit.
DecodeEachBit(idx_dims, f, k, grid, off, mir, rev) ==
    DecodeBits(idx_dims, f, k, grid, off, mir, BitOrder(f, rev), 1,
               [i \in 1..f.num_bits |-> FALSE], {})

\* decode_field: the element's decode_arr through the Pattern's decode.
DecodeField(idx_dims, f, k, grid, off, mir, rev) ==
    LET arr == DecodeEachBit(idx_dims, f, k, grid, off, mir, rev)
    IN IF arr.res.kind = "Panic" THEN arr
       ELSE Outcome(PatDecode(f.pat, arr.res.val), arr.reads)

\* A decode that goes through every element and keeps the last failure.
LaterFailure(r, rest) ==
    IF rest.res.kind # "Ok" THEN Outcome(rest.res, r.reads \cup rest.reads)
    ELSE IF r.res.kind # "Ok" THEN Outcome(r.res, r.reads \cup rest.reads)
    ELSE Outcome(Ok(<<r.res.val>> \o rest.res.val), r.reads \cup rest.reads)

\* The ? operator on element k's decode r, then the elements after it: the
\* first element that fails is the outcome and nothing after it is decoded.
Question(r, rest) ==
    IF r.res.kind # "Ok" THEN r
    ELSE IF rest.res.kind # "Ok" THEN Outcome(rest.res, r.reads \cup rest.reads)
    ELSE Outcome(Ok(<<r.res.val>> \o rest.res.val), r.reads \cup rest.reads)

\* The (field, element) pairs from the k-th on, decoded in order.
RECURSIVE DecodeFields(_, _, _, _, _, _)
DecodeFields(s, grid, off, mir, rev, k) ==
    IF k > Len(s.elems) THEN Outcome(Ok(<<>>), {})
    ELSE LET fi == s.elems[k][1]
             ei == s.elems[k][2]
             f == s.fields[fi]
         IN Question(DecodeField(s.idx_dims, f, k, grid, ElemOffset(f, ei, off, mir),
                                 mir, rev),
                     DecodeFields(s, grid, off, mir, rev, k + 1))

\* The composite of the elements' values.
Composite(s, vals) ==
    Table([fi \in 1..Len(s.fields) |->
             Table([ei \in 1..Len(s.fields[fi].arr_off) |-> vals[s.base[fi] + ei]])])

\* Generated BitFragment::decode: Ok(Self { field: { ... decode(&decode_arr)? }, ... })
GenDecode(s, grid, off, mir, rev) ==
    LET out == DecodeFields(s, grid, off, mir, rev, 1)
    IN IF out.res.kind # "Ok" THEN out
       ELSE Outcome(Ok(Composite(s, out.res.val)), out.reads)
\* An encode that forwards to the other implementation.
JedLargeEncodeSwapped(val, grid, off, mir, extra_data, w, rev) ==
    IF extra_data
    THEN GenEncode(XC2Macrocell["JedLargeUnburied"], val, grid, off, mir, w, rev)
    ELSE GenEncode(XC2Macrocell["JedLargeBuried"], val, grid, off, mir, w, rev)

\* impl BitFragment<JedLarge> for XC2Macrocell: encode forwards to the
\* JedLargeBuried or the JedLargeUnburied implementation on extra_data.
JedLargeEncode(val, grid, off, mir, extra_data, w, rev) ==
    IF extra_data
    THEN GenEncode(XC2Macrocell["JedLargeBuried"], val, grid, off, mir, w, rev)
    ELSE GenEncode(XC2Macrocell["JedLargeUnburied"], val, grid, off, mir, w, rev)

\* A decode that forwards to JedLargeUnburied whatever the flag.
JedLargeDecodeUnburied(grid, off, mir, extra_data, rev) ==
    GenDecode(XC2Macrocell["JedLargeUnburied"], grid, off, mir, rev)

\* impl BitFragment<JedLarge> for XC2Macrocell: decode.
JedLargeDecode(grid, off, mir, extra_data, rev) ==
    IF extra_data
    THEN GenDecode(XC2Macrocell["JedLargeBuried"], grid, off, mir, rev)
    ELSE GenDecode(XC2Macrocell["JedLargeUnburied"], grid, off, mir, rev)

\* The schema #[bitfragment] resolved for type t under LayoutVariant v.
Generated(t, v) ==
    CASE t = "MyEnum" -> MyEnumFrag
      [] t = "MyStruct1" -> MyStruct1
      [] t = "SynthStruct" -> SynthStruct
      [] t = "SynthConst" -> SynthConst
      [] t = "SynthPartial" -> SynthPartial
      [] OTHER -> XC2Macrocell[v]

\* <t as BitFragment<v>>::encode
FragEncode(t, v, val, grid, off, mir, e, w, rev) ==
    IF v = "JedLarge" THEN JedLargeEncode(val, grid, off, mir, e, w, rev)
    ELSE GenEncode(Generated(t, v), val, grid, off, mir, w, rev)

\* <t as BitFragment<v>>::decode
FragDecode(t, v, grid, off, mir, e, rev) ==
    IF v = "JedLarge" THEN JedLargeDecode(grid, off, mir, e, rev)
    ELSE GenDecode(Generated(t, v), grid, off, mir, rev)

----------------------------------------------------------------------------
\* The inputs of a call.

\* The layout a call on (t, v) with extra data e is declared to use.
Layout(t, v, e) ==
    IF v = "JedLarge"
    THEN XC2Macrocell[IF e THEN "JedLargeBuried" ELSE "JedLargeUnburied"]
    ELSE Generated(t, v)

\* The local positions (element offset plus bit position) of a schema.
LocalPositions(s) ==
    UNION {UNION {{[d \in 1..s.idx_dims |->
                        s.fields[fi].arr_off[ei][d] + s.fields[fi].patbits[n].pos.locs[d]] :
                     n \in {m \in DOMAIN s.fields[fi].patbits :
                              s.fields[fi].patbits[m].pos.kind = "Loc"}} :
                  ei \in 1..Len(s.fields[fi].arr_off)} :
           fi \in 1..Len(s.fields)}

\* Cells per dimension of the grid a schema is used on.
GridShape(s) ==
    [d \in 1..s.idx_dims |-> 1 + Max({p[d] : p \in LocalPositions(s)}) + Slack]

\* The indices of a grid: usize, or [usize; idx_dims].
GridDomain(shape) ==
    IF Len(shape) = 1 THEN {<<x>> : x \in 0..(shape[1] - 1)}
    ELSE {<<x, y>> : x \in 0..(shape[1] - 1), y \in 0..(shape[2] - 1)}

\* The grids of a shape that a caller supplies.
InitGrids(shape) ==
    {Grid(shape, cell) :
        cell \in IF Len(shape) = 1
                 THEN IF shape[1] <= MaxEnumCells
                      THEN [1..shape[1] -> BOOLEAN]
                      ELSE {[i \in 1..shape[1] |-> b] : b \in BOOLEAN}
                 ELSE {[i \in 1..shape[1] |-> [j \in 1..shape[2] |-> b]] : b \in BOOLEAN}}

\* The values of a Fragment type: per field, per element, a Pattern value.
RECURSIVE ValuesFrom(_, _)
ValuesFrom(s, fi) ==
    IF fi > Len(s.fields) THEN {<<>>}
    ELSE {<<e>> \o rest :
            e \in [1..Len(s.fields[fi].arr_off) -> PatValues(s.fields[fi].pat)],
            rest \in ValuesFrom(s, fi + 1)}

TestTypes == {"MyEnum", "MyStruct1", "SynthStruct", "SynthConst", "SynthPartial"}

TestValues == Table([t \in TestTypes |-> ValuesFrom(Generated(t, "()"), 1)])

XC2MacrocellValues ==
    {m \in ValuesFrom(XC2Macrocell["JedSmall"], 1) :
        Cardinality({fi \in 1..Len(m) : m[fi] # Default[fi]}) <= MaxChanged}

FragValues(t) == IF t \in TestTypes THEN TestValues[t] ELSE XC2MacrocellValues

HasWildcards(s) ==
    \E fi \in 1..Len(s.fields) : \E var \in 1..Len(s.fields[fi].pat.variants) :
        \E i \in 1..BITS_COUNT(s.fields[fi].pat) :
            IsWildcard(s.fields[fi].pat.variants[var].bits[i])

\* The wildcard bits of the Pattern encoder, as the positions' function.
WildBits(b) == [i \in 1..Len(BitNameTable) |-> b]

NoValue == <<>>

\* No encode came before.
NoFirst == [value |-> NoValue, fuses |-> <<>>]

\* Pattern codec variables while Fragment calls are made, and the reverse.
PatIdle ==
    /\ pat = Bool /\ pval = FALSE /\ parr = <<>> /\ pres = NoResult /\ ppc = "idle"
    /\ docs = ""

FragIdle ==
    /\ ty = "none" /\ variant = "()" /\ extra = FALSE
    /\ fuses0 = <<>> /\ fuses = <<>> /\ offset = <<>> /\ mirror = <<>>
    /\ wild = FALSE /\ first = NoFirst /\ value = NoValue /\ result = NoResult
    /\ writes = {} /\ reads = {} /\ pc = "idle"

\* No concurrent call is made.
ConcIdle == grids0 = <<>> /\ grids = <<>> /\ calls = <<>>

\* The macro has not been applied.
MacroIdle ==
    /\ input = [fields |-> <<>>, encode_variant |-> "none", idx_dims |-> 1]
    /\ field_i = 0 /\ errors_occurred = FALSE /\ emitted = {}
    /\ obj_field_info = <<>> /\ output = "idle"

\* Offsets along a dimension of n cells.  MyEnum and SynthStruct: every cell.
\* XC2Macrocell: the first and the last cell.  MyStruct1: these, and the last
\* cell of the layout's extent.
Offsets(t, n) ==
    IF t \in {"MyEnum", "SynthStruct"} THEN 0..(n - 1)
    ELSE IF t = "MyStruct1" THEN {0, n - 1 - Slack, n - 1}
    ELSE {0, n - 1}

\* Every cell of the layout, at this offset and mirror, is a cell of the grid.
Inside(s, shape, off, mir) ==
    \A p \in LocalPositions(s) : \A d \in 1..s.idx_dims :
        /\ off[d] + (IF mir[d] THEN -1 ELSE 1) * p[d] >= 0
        /\ off[d] + (IF mir[d] THEN -1 ELSE 1) * p[d] < shape[d]

\* A call with its grid, offset and mirror; inside: only placements that keep
\* the layout inside the grid.
InitCall(t, v, e, inside) ==
    LET s == Layout(t, v, e)
        shape == GridShape(s)
    IN /\ ty = t /\ variant = v /\ extra = e
       /\ fuses0 \in InitGrids(shape)
       /\ fuses = fuses0
       /\ offset \in {o \in [1..s.idx_dims -> 0..Max({shape[d] : d \in 1..s.idx_dims})] :
                        \A d \in 1..s.idx_dims : o[d] \in Offsets(t, shape[d])}
       /\ mirror \in [1..s.idx_dims -> BOOLEAN]
       /\ inside => Inside(s, shape, offset, mirror)
       /\ wild \in (IF HasWildcards(s) THEN BOOLEAN ELSE {FALSE})
       /\ first = NoFirst /\ value = NoValue /\ result = NoResult
       /\ writes = {} /\ reads = {} /\ pc = "init"

\* The layout of the call.
CallLayout == Layout(ty, variant, extra)

\* Calls on the small test Fragments, at placements inside the grid and not.
Init ==
    /\ PatIdle /\ MacroIdle /\ ConcIdle
    /\ \E t \in {"MyEnum", "SynthStruct"} : InitCall(t, "()", FALSE, FALSE)

\* Offsets in the top half of usize, which `as isize` turns negative.
WrapOffsets == {UsizeModulus - k : k \in 1..3}

\* Calls on the small test Fragments with such an offset.
InitWrap ==
    /\ PatIdle /\ MacroIdle /\ ConcIdle
    /\ \E t \in {"MyEnum", "SynthStruct"} :
         LET s == Layout(t, "()", FALSE)
         IN /\ ty = t /\ variant = "()" /\ extra = FALSE
            /\ fuses0 \in InitGrids(GridShape(s))
            /\ fuses = fuses0
            /\ offset \in [1..s.idx_dims -> WrapOffsets]
            /\ mirror \in [1..s.idx_dims -> BOOLEAN]
            /\ wild \in (IF HasWildcards(s) THEN BOOLEAN ELSE {FALSE})
            /\ first = NoFirst /\ value = NoValue /\ result = NoResult
            /\ writes = {} /\ reads = {} /\ pc = "init"

\* Calls on the Fragments with constant bits and with undeclared bits.
InitSynth ==
    /\ PatIdle /\ MacroIdle /\ ConcIdle
    /\ \E t \in {"SynthStruct", "SynthConst", "SynthPartial"} :
         InitCall(t, "()", FALSE, FALSE)

\* Calls on MyEnum and MyStruct1 inside the grid.
InitArr ==
    /\ PatIdle /\ MacroIdle /\ ConcIdle
    /\ \E t \in {"MyEnum", "MyStruct1"} : InitCall(t, "()", FALSE, TRUE)

\* Calls on XC2Macrocell inside the grid, under every LayoutVariant.
InitMC ==
    /\ PatIdle /\ MacroIdle /\ ConcIdle
    /\ \E v \in GeneratedVariants \cup {"JedLarge"} :
         \E e \in (IF v = "JedLarge" THEN BOOLEAN ELSE {FALSE}) :
            InitCall("XC2Macrocell", v, e, TRUE)

----------------------------------------------------------------------------
\* Fragment codec calls.

\* value.encode(fuses, offset, mirror, extra); rev: the order the HashMap of
\* a field's bits happens to iterate in.
Encode ==
    /\ pc = "init"
    /\ \E v \in FragValues(ty) : \E rev \in BOOLEAN :
         \E r \in {FragEncode(ty, variant, v, fuses, offset, mirror, extra, WildBits(wild), rev)} :
            /\ value' = v
            /\ fuses' = r.fuses
            /\ writes' = r.writes
            /\ pc' = IF r.panicked THEN "encode_panicked" ELSE "encoded"
    /\ UNCHANGED <<ty, variant, extra, fuses0, offset, mirror, wild, first, result, reads>>
    /\ UNCHANGED <<patVars, macroVars, concVars>>

\* T::decode(fuses, offset, mirror, extra), of a grid as supplied or as encoded.
Decode ==
    /\ pc \in {"init", "encoded"}
    /\ \E rev \in BOOLEAN :
         \E r \in {FragDecode(ty, variant, fuses, offset, mirror, extra, rev)} :
            /\ result' = r.res
            /\ reads' = r.reads
            /\ pc' = IF r.res.kind = "Panic" THEN "decode_panicked" ELSE "decoded"
    /\ UNCHANGED <<ty, variant, extra, fuses0, fuses, offset, mirror, wild, first, value, writes>>
    /\ UNCHANGED <<patVars, macroVars, concVars>>

Next == Encode \/ Decode

Spec == Init /\ [][Next]_vars

SpecArr == InitArr /\ [][Next]_vars

SpecMC == InitMC /\ [][Next]_vars

SpecWrap == InitWrap /\ [][Next]_vars

SpecSynth == InitSynth /\ [][Next]_vars

----------------------------------------------------------------------------
\* Pattern codec calls.

\* Pattern declarations beyond the repository's: every table of up to
\* MaxSynthVariants two-character bit-strings.
SynthStrings == {<<a, b>> : a \in {"0", "1", "x"}, b \in {"0", "1", "x"}}

SynthPatterns ==
    UNION {{[name |-> "Synth",
             variants |-> [i \in 1..n |-> [name |-> i - 1, val |-> i - 1, bits |-> t[i]]]] :
              t \in [1..n -> SynthStrings]} :
           n \in 1..MaxSynthVariants}

InitPat ==
    /\ FragIdle /\ MacroIdle /\ ConcIdle
    /\ pat \in DeclaredPatterns \cup SynthPatterns
    /\ pval = FALSE /\ parr = <<>> /\ pres = NoResult /\ ppc = "init"
    /\ docs = ""

\* v.encode(())
PatternEncode ==
    /\ ppc = "init"
    /\ \E v \in PatValues(pat) : \E w \in [1..BITS_COUNT(pat) -> BOOLEAN] :
         /\ pval' = v
         /\ parr' = PatEncode(pat, v, w)
    /\ ppc' = "encoded"
    /\ UNCHANGED <<pat, pres, docs>>
    /\ UNCHANGED <<fragVars, macroVars, concVars>>

\* The caller has a bit vector of its own.
PatternSupply ==
    /\ ppc = "init"
    /\ parr' \in [1..BITS_COUNT(pat) -> BOOLEAN]
    /\ ppc' = "supplied"
    /\ UNCHANGED <<pat, pval, pres, docs>>
    /\ UNCHANGED <<fragVars, macroVars, concVars>>

\* T::decode(&bits, ())
PatternDecode ==
    /\ ppc \in {"encoded", "supplied"}
    /\ pres' = PatDecode(pat, parr)
    /\ ppc' = IF ppc = "encoded" THEN "redecoded" ELSE "decoded"
    /\ UNCHANGED <<pat, pval, parr, docs>>
    /\ UNCHANGED <<fragVars, macroVars, concVars>>

NextPat == PatternEncode \/ PatternSupply \/ PatternDecode

SpecPat == InitPat /\ [][NextPat]_vars

----------------------------------------------------------------------------
\* Documentation renderer calls.

\* Variant names and descriptions of several lengths.
DocNames == {"a", "bb", "cccc"}
DocDescs == {"", "d", "a description"}

\* Pattern declarations of two variants with such names and descriptions.
DocPatterns ==
    {[name |-> "Doc",
      variants |-> << [name |-> n1, val |-> 0, bits |-> <<"0", "x">>, desc |-> d1],
                      [name |-> n2, val |-> 1, bits |-> <<"1", "0">>, desc |-> d2] >>] :
        n1 \in DocNames, n2 \in DocNames, d1 \in DocDescs, d2 \in DocDescs}

InitDoc ==
    /\ FragIdle /\ MacroIdle /\ ConcIdle
    /\ pat \in DeclaredPatterns \cup DocPatterns
    /\ pval = FALSE /\ parr = <<>> /\ pres = NoResult /\ ppc = "init"
    /\ docs = ""

\* Bit names of two-bit Patterns: position numbers, and longer ones.
DocBitNames == {<<"0", "1">>, <<"lo", "hi">>, <<"10", "11">>}

\* Pattern implementations with such bit names.
NamedPatterns ==
    {[name |-> "Named", bitnames |-> b,
      variants |-> << [name |-> n1, val |-> 0, bits |-> <<"0", "x">>, desc |-> d1],
                      [name |-> n2, val |-> 1, bits |-> <<"1", "0">>, desc |-> d2] >>] :
        b \in DocBitNames, n1 \in DocNames, n2 \in DocNames, d1 \in DocDescs, d2 \in DocDescs}

InitNamed ==
    /\ FragIdle /\ MacroIdle /\ ConcIdle
    /\ pat \in NamedPatterns
    /\ pval = FALSE /\ parr = <<>> /\ pres = NoResult /\ ppc = "init"
    /\ docs = ""

\* T::docs_as_ascii_table()
PatternDocs ==
    /\ ppc = "init"
    /\ docs' = docs_as_ascii_table(pat)
    /\ ppc' = "documented"
    /\ UNCHANGED <<pat, pval, parr, pres>>
    /\ UNCHANGED <<fragVars, macroVars, concVars>>

NextDoc == PatternDocs

SpecNamed == InitNamed /\ [][NextDoc]_vars

SpecDoc == InitDoc /\ [][NextDoc]_vars

----------------------------------------------------------------------------
\* The #[bitfragment] attribute macro on an item: what parse_attrs gathers
\* from the attributes of each field, and what the macro emits.

\* Option<T>
None == [some |-> FALSE, v |-> <<>>]
Some(x) == [some |-> TRUE, v |-> x]

\* A position expression is written as the sequence of its operators from the
\* outside in, ending with the innermost expression: "not" is a unary '!',
\* "paren" a pair of parentheses; the innermost is a bool literal ("false",
\* "true"), an integer literal ("int"), a tuple of two integer literals
\* ("tuple"), an integer literal that is no isize ("huge"), a tuple with an
\* element that is no integer literal ("badtuple"), or an expression of
\* another form ("other": a path, a string, a negative number).

\* The innermost expressions that resolve to a position.
Literals == {"false", "true", "int", "tuple"}

\* The position expressions of the items the macro is applied to.
Exprs == {<<"false">>, <<"int">>, <<"tuple">>, <<"huge">>, <<"other">>}

\* An inversion that sets the flag instead of toggling it.
InvertSet(inner_expr) == PatBitInfo(TRUE, inner_expr.pos)

\* PatBitInfo { invert: !inner_expr.invert, pos: inner_expr.pos }
Invert(inner_expr) == PatBitInfo(~inner_expr.invert, inner_expr.pos)

\* parse_pat_bits_expr: failed is the Err(..) of base10_parse::<isize>()?,
\* errors the errors_occurred flag, info the PatBitInfo.
RECURSIVE parse_pat_bits_expr(_)
parse_pat_bits_expr(expr) ==
    CASE Head(expr) \in {"false", "true"} ->
           [failed |-> FALSE, errors |-> FALSE,
            info |-> PatBitInfo(FALSE, BoolPos(Head(expr) = "true"))]
      [] Head(expr) = "int" ->
           [failed |-> FALSE, errors |-> FALSE, info |-> PatBitInfo(FALSE, Loc(<<1>>))]
      [] Head(expr) = "tuple" ->
           [failed |-> FALSE, errors |-> FALSE, info |-> PatBitInfo(FALSE, Loc(<<1, 2>>))]
      [] Head(expr) = "huge" ->
           [failed |-> TRUE, errors |-> FALSE, info |-> PatBitInfo(FALSE, BoolPos(FALSE))]
      [] Head(expr) = "badtuple" ->
           [failed |-> FALSE, errors |-> TRUE, info |-> PatBitInfo(FALSE, Loc(<<1>>))]
      [] Head(expr) = "not" /\ Len(expr) > 1 ->
           LET inner == parse_pat_bits_expr(Tail(expr))
           IN IF inner.failed THEN inner
              ELSE [failed |-> FALSE, errors |-> inner.errors, info |-> Invert(inner.info)]
      [] Head(expr) = "paren" /\ Len(expr) > 1 ->
           parse_pat_bits_expr(Tail(expr))
      [] OTHER ->
           [failed |-> FALSE, errors |-> TRUE, info |-> PatBitInfo(FALSE, BoolPos(FALSE))]

\* What emit_error! reported.
DuplicateBit == "Duplicate bit position"
DimMismatch == "Position doesn't match dimension"
InvalidExpr == "Invalid position expression"
OnlyOneAttr == "Only one #[pat_bits] attribute allowed"

\* A duplicate check that is left out.
ContainsKeyNever(maybe_patbits, bit_id) == FALSE

\* maybe_patbits.contains_key(&bit_id)
ContainsKey(maybe_patbits, bit_id) == bit_id \in DOMAIN maybe_patbits

\* The loop over the settings of one #[pat_bits(...)] attribute, from the
\* i-th: PatBitsSetting::Expr and ::StrExpr.  failed: a `?` returned.
RECURSIVE ParseSettings(_, _, _, _, _, _)
ParseSettings(attr_args, i, maybe_patbits, errors, emitted_, idx_dims) ==
    IF i > Len(attr_args)
    THEN [failed |-> FALSE, patbits |-> maybe_patbits, errors |-> errors, emitted |-> emitted_]
    ELSE LET x == attr_args[i]
             dup == ContainsKey(maybe_patbits, x.bit_id)
             r == parse_pat_bits_expr(x.expr)
             mismatch == r.info.pos.kind = "Loc" /\ Len(r.info.pos.locs) # idx_dims
             em == emitted_ \cup (IF dup THEN {DuplicateBit} ELSE {})
         IN IF r.failed
            THEN [failed |-> TRUE, patbits |-> maybe_patbits, errors |-> errors \/ dup,
                  emitted |-> em]
            ELSE ParseSettings(attr_args, i + 1,
                     (x.bit_id :> r.info) @@ maybe_patbits,
                     errors \/ dup \/ r.errors \/ mismatch,
                     em \cup (IF r.errors THEN {InvalidExpr} ELSE {})
                        \cup (IF mismatch THEN {DimMismatch} ELSE {}),
                     idx_dims)

\* The fragment variant filter: the attribute is the one of this variant.
Selected(attr, encode_variant) == attr.frag_var = encode_variant

\* for i in to_remove { attrs.remove(i); }: each removal shifts the attributes
\* after it, and an index that is no longer one of the vector panics.
RECURSIVE RemoveEach(_, _, _)
RemoveEach(attrs, to_remove, k) ==
    IF k > Len(to_remove) THEN [panicked |-> FALSE, attrs |-> attrs]
    ELSE IF to_remove[k] >= Len(attrs) THEN [panicked |-> TRUE, attrs |-> attrs]
    ELSE RemoveEach([j \in 1..(Len(attrs) - 1) |->
                        IF j <= to_remove[k] THEN attrs[j] ELSE attrs[j + 1]],
                    to_remove, k + 1)

\* The loop of parse_attrs over the attributes, from the i-th (from 0).
RECURSIVE ParseAttrsFrom(_, _, _, _, _, _, _, _)
ParseAttrsFrom(attrs, i, encode_variant, idx_dims, errors, emitted_, patbits, to_remove) ==
    IF i >= Len(attrs)
    THEN LET rm == RemoveEach(attrs, to_remove, 1)
         IN [kind |-> IF rm.panicked THEN "Panic" ELSE "Ok",
             errors_occurred |-> errors, emitted |-> emitted_, patbits |-> patbits,
             attrs |-> rm.attrs]
    ELSE IF attrs[i + 1].kind # "pat_bits"
    THEN ParseAttrsFrom(attrs, i + 1, encode_variant, idx_dims, errors, emitted_, patbits,
                        to_remove)
    ELSE LET attr == attrs[i + 1]
             r == ParseSettings(attr.args, 1, <<>>, errors, emitted_, idx_dims)
             again == Selected(attr, encode_variant) /\ patbits.some
         IN IF r.failed
            THEN [kind |-> "Err", errors_occurred |-> r.errors, emitted |-> r.emitted,
                  patbits |-> patbits, attrs |-> attrs]
            ELSE IF Selected(attr, encode_variant)
            THEN ParseAttrsFrom(attrs, i + 1, encode_variant, idx_dims,
                     r.errors \/ again,
                     r.emitted \cup (IF again THEN {OnlyOneAttr} ELSE {}),
                     Some(r.patbits), Append(to_remove, i))
            ELSE ParseAttrsFrom(attrs, i + 1, encode_variant, idx_dims, r.errors, r.emitted,
                     patbits, to_remove)

\* parse_attrs(attrs, encode_variant, idx_dims)
parse_attrs(attrs, encode_variant, idx_dims) ==
    ParseAttrsFrom(attrs, 0, encode_variant, idx_dims, FALSE, {}, None, <<>>)

----------------------------------------------------------------------------
\* Items the macro is applied to.

BitIds == {"0", "1"}

\* A "name = expr" setting.
Settings == [bit_id : BitIds, expr : Exprs]

\* frag_variant of an attribute, variant of the macro: none, or the tag A.
FragVariants == {"none", "A"}

DocAttr == [kind |-> "doc", frag_var |-> "none", args |-> <<>>]

\* #[pat_bits(...)] attributes of one or two settings.
PatBitsAttrs ==
    [kind : {"pat_bits"}, frag_var : FragVariants,
     args : {<<a>> : a \in Settings} \cup {<<a, b>> : a \in Settings, b \in Settings}]

\* A second attribute of a field: one well-formed position.
SecondAttrs ==
    {p \in PatBitsAttrs : Len(p.args) = 1 /\ p.args[1].expr \in {<<"int">>, <<"tuple">>}}

\* The attributes of a field: none, one #[pat_bits], two, two and a doc
\* comment after them.
FieldAttrs ==
    {<<>>} \cup {<<p>> : p \in PatBitsAttrs}
           \cup {<<p, q>> : p \in PatBitsAttrs, q \in SecondAttrs}
           \cup {<<p, q, DocAttr>> : p \in PatBitsAttrs, q \in SecondAttrs}

\* The attributes of a field after the first.
LaterFieldAttrs ==
    {<<[kind |-> "pat_bits", frag_var |-> "none",
        args |-> <<[bit_id |-> "0", expr |-> e]>>]>> : e \in {<<"int">>, <<"huge">>}}

\* The fields of the item: each the list of its attributes.
Items ==
    {<<f>> : f \in FieldAttrs} \cup {<<f, g>> : f \in FieldAttrs, g \in LaterFieldAttrs}

\* #[bitfragment(variant = .., dimensions = ..)] on an item.
InitMacro ==
    /\ FragIdle /\ PatIdle /\ ConcIdle
    /\ input \in [fields : Items, encode_variant : FragVariants, idx_dims : {1, 2}]
    /\ field_i = 0 /\ errors_occurred = FALSE /\ emitted = {}
    /\ obj_field_info = <<>> /\ output = "none"

\* One turn of the loop over the fields: parse_attrs on the field's
\* attributes, and the FieldInfo pushed.  An Err(e) returns
\* e.to_compile_error() as the whole output.
ParseField ==
    /\ output = "none"
    /\ field_i < Len(input.fields)
    /\ \E r \in {parse_attrs(input.fields[field_i + 1], input.encode_variant, input.idx_dims)} :
         /\ emitted' = emitted \cup r.emitted
         /\ IF r.kind = "Ok"
            THEN /\ errors_occurred' = (errors_occurred \/ r.errors_occurred)
                 /\ obj_field_info' = Append(obj_field_info, r.patbits)
                 /\ field_i' = field_i + 1
                 /\ output' = output
            ELSE /\ output' = (IF r.kind = "Err" THEN "compile_error" ELSE "panic")
                 /\ UNCHANGED <<errors_occurred, obj_field_info, field_i>>
    /\ UNCHANGED input
    /\ UNCHANGED <<fragVars, patVars, concVars>>

\* After the fields: if errors_occurred the item alone is returned; else the
\* code is generated, which unwraps every field's patbits.
Codegen ==
    /\ output = "none"
    /\ field_i = Len(input.fields)
    /\ output' = (IF errors_occurred THEN "item"
                  ELSE IF \E k \in 1..Len(obj_field_info) : ~obj_field_info[k].some
                       THEN "panic"
                  ELSE "impl")
    /\ UNCHANGED <<input, field_i, errors_occurred, emitted, obj_field_info>>
    /\ UNCHANGED <<fragVars, patVars, concVars>>


\* Position expressions of up to MaxNest '!' and parentheses around an
\* innermost expression.
RECURSIVE Wrapped(_)
Wrapped(n) ==
    IF n = 0 THEN {<<x>> : x \in Literals \cup {"huge", "badtuple", "other"}}
    ELSE Wrapped(n - 1) \cup {<<w>> \o e : w \in {"not", "paren"}, e \in Wrapped(n - 1)}

NestedExprs == Wrapped(MaxNest)

\* #[bitfragment(dimensions = ..)] on an item of one field with one
\* #[pat_bits("0" = expr)] or #[pat_bits("1" = expr)] attribute.
InitExpr ==
    /\ FragIdle /\ PatIdle /\ ConcIdle
    /\ \E b \in BitIds : \E e \in NestedExprs : \E n \in {1, 2} :
         input = [fields |-> << << [kind |-> "pat_bits", frag_var |-> "none",
                                    args |-> <<[bit_id |-> b, expr |-> e]>>] >> >>,
                  encode_variant |-> "none", idx_dims |-> n]
    /\ field_i = 0 /\ errors_occurred = FALSE /\ emitted = {}
    /\ obj_field_info = <<>> /\ output = "none"

NextMacro == ParseField \/ Codegen

SpecMacro == InitMacro /\ [][NextMacro]_vars

SpecExpr == InitExpr /\ [][NextMacro]_vars
----------------------------------------------------------------------------
\* Several calls at once: threads that each run one encode or decode, a cell
\* access at a time.  decode borrows the grid shared (fuses: &F), so several
\* decodes may run on one grid; encode borrows it exclusively (fuses: &mut F),
\* so a grid being encoded has no other call on it.

\* A read that clears the cell it read.
AfterReadCleared(grid, idx) == GridSet(grid, idx, FALSE)

\* The grid after fuses[idx] was read through the shared borrow.
AfterRead(grid, idx) == grid

\* A call: op "encode" or "decode" of type t on grid g, its arguments, and how
\* far it is: the element k and bit i it handles next, decode_arr so far
\* (arr), the values decoded so far (vals), and its outcome (res) once done.
Call(op, t, g, off, mir, rev, val, w) ==
    [op |-> op, t |-> t, g |-> g, off |-> off, mir |-> mir, rev |-> rev,
     val |-> val, w |-> w, k |-> 1, i |-> 1,
     arr |-> [j \in 1..Generated(t, "()").fields[1].num_bits |-> FALSE],
     vals |-> <<>>, res |-> NoResult, done |-> FALSE]

\* Where a concurrent call is placed on a dimension of n cells: at the first
\* cell, mirrored at the last, and (leaving the grid) unmirrored at the last.
ConcPlacements(n) == {<<0, FALSE>>, <<n - 1, TRUE>>, <<n - 1, FALSE>>}

\* Two decodes of one Fragment type on the same grid.
InitShared ==
    \E t \in {"MyEnum", "SynthStruct"} :
        LET n == GridShape(Generated(t, "()"))[1]
        IN /\ grids0 \in {<<g>> : g \in InitGrids(<<n>>)}
           /\ calls \in {<<Call("decode", t, 1, <<p1[1]>>, <<p1[2]>>, r1, NoValue, FALSE),
                           Call("decode", t, 1, <<p2[1]>>, <<p2[2]>>, r1, NoValue, FALSE)>> :
                            p1 \in ConcPlacements(n), p2 \in ConcPlacements(n),
                            r1 \in BOOLEAN}

\* An encode or a decode of MyEnum on each of two grids.
InitDisjoint ==
    LET n == GridShape(MyEnumFrag)[1]
        Ops == {<<"decode", NoValue>>} \cup {<<"encode", v>> : v \in FragValues("MyEnum")}
    IN /\ grids0 \in {<<g1, Grid(<<n>>, [j \in 1..n |-> b])>> :
                         g1 \in InitGrids(<<n>>), b \in BOOLEAN}
       /\ calls \in {<<Call(o1[1], "MyEnum", 1, <<p1[1]>>, <<p1[2]>>, FALSE, o1[2], FALSE),
                       Call(o2[1], "MyEnum", 2, <<0>>, <<FALSE>>, FALSE, o2[2], FALSE)>> :
                        o1 \in Ops, o2 \in Ops, p1 \in ConcPlacements(n)}

InitConc ==
    /\ FragIdle /\ PatIdle /\ MacroIdle
    /\ InitShared \/ InitDisjoint
    /\ grids = grids0

\* The call ends with outcome r.
Finish(c, r) == [calls EXCEPT ![c].res = r, ![c].done = TRUE]

\* One bit of a decode: the cell read (or the constant) into decode_arr; after
\* the field's last bit the Pattern's decode and its ?, after the last field
\* the composite.
DecodeStep(c) ==
    LET cl == calls[c]
        s == Generated(cl.t, "()")
        f == s.fields[s.elems[cl.k][1]]
        eoff == ElemOffset(f, s.elems[cl.k][2], cl.off, cl.mir)
        names == BitOrder(f, cl.rev)
        bi == f.patbits[names[cl.i]]
        pos == name_to_pos(f.pat, names[cl.i])
        index == DecodeIndex(s.idx_dims, eoff, cl.mir, bi.pos.locs)
        isLoc == bi.pos.kind = "Loc"
        bit == IF isLoc THEN InvToken(bi.invert, GridGet(grids[cl.g], index))
               ELSE InvToken(bi.invert, bi.pos.b)
        arr2 == [cl.arr EXCEPT ![pos + 1] = bit]
        r == PatDecode(f.pat, arr2)
        vals2 == Append(cl.vals, r.val)
    IN /\ ~cl.done /\ cl.op = "decode"
       /\ IF isLoc /\ ~InGrid(grids[cl.g], index)
          THEN calls' = Finish(c, Panic) /\ grids' = grids
          ELSE /\ grids' = IF isLoc THEN [grids EXCEPT ![cl.g] = AfterRead(@, index)]
                           ELSE grids
               /\ calls' =
                    IF pos >= Len(cl.arr) THEN Finish(c, Panic)
                    ELSE IF cl.i < Len(names)
                         THEN [calls EXCEPT ![c].i = cl.i + 1, ![c].arr = arr2]
                    ELSE IF r.kind # "Ok" THEN Finish(c, r)
                    ELSE IF cl.k = Len(s.elems)
                         THEN Finish(c, Ok(Composite(s, vals2)))
                    ELSE [calls EXCEPT
                             ![c].k = cl.k + 1, ![c].i = 1, ![c].vals = vals2,
                             ![c].arr = [j \in 1..s.fields[s.elems[cl.k + 1][1]].num_bits
                                            |-> FALSE]]
       /\ UNCHANGED grids0
       /\ UNCHANGED <<fragVars, patVars, macroVars>>

\* The assignments of an encode that are still to do, from the i-th entry.
RECURSIVE NextAssignment(_, _)
NextAssignment(ws, i) ==
    IF i > Len(ws) \/ ws[i].loc THEN i ELSE NextAssignment(ws, i + 1)

\* One assignment of an encode.
EncodeStep(c) ==
    LET cl == calls[c]
        s == Generated(cl.t, "()")
        ws == EncodeFields(s, cl.val, cl.off, cl.mir, WildBits(cl.w), cl.rev, 1)
        i == NextAssignment(ws, cl.i)
    IN /\ ~cl.done /\ cl.op = "encode"
       /\ IF i > Len(ws)
          THEN calls' = Finish(c, Ok(<<>>)) /\ grids' = grids
          ELSE IF ws[i].oob \/ ~InGrid(grids[cl.g], ws[i].idx)
          THEN calls' = Finish(c, Panic) /\ grids' = grids
          ELSE /\ grids' = [grids EXCEPT ![cl.g] = GridSet(@, ws[i].idx, ws[i].bit)]
               /\ calls' = IF NextAssignment(ws, i + 1) > Len(ws)
                           THEN [Finish(c, Ok(<<>>)) EXCEPT ![c].i = i + 1]
                           ELSE [calls EXCEPT ![c].i = i + 1]
       /\ UNCHANGED grids0
       /\ UNCHANGED <<fragVars, patVars, macroVars>>

NextConc == \E c \in DOMAIN calls : DecodeStep(c) \/ EncodeStep(c)

SpecConc == InitConc /\ [][NextConc]_vars

----------------------------------------------------------------------------
\* The assignments of an encode in another order.

\* Orders of n assignments: perm[i] is the assignment made i-th.
Rotation(n, r) == [i \in 1..n |-> ((i - 1 + r) % n) + 1]
Reversal(n) == [i \in 1..n |-> n + 1 - i]
Swap(n, a, b) == [i \in 1..n |-> IF i = a THEN b ELSE IF i = b THEN a ELSE i]

\* The rotations, the reversal and the exchanges of two assignments that
\* follow each other.
Orders(n) ==
    {Rotation(n, r) : r \in 0..(n - 1)} \cup {Reversal(n)}
        \cup {Swap(n, a, a + 1) : a \in 1..(n - 1)}

\* The values encoded in another order: of MyStruct1, those whose elements are
\* the first or the last variant of MyEnum; of XC2Macrocell, Default and
\* those that differ from it in one field.
OrderValues(t) ==
    IF t = "MyStruct1"
    THEN {v \in FragValues(t) :
            \A ei \in DOMAIN v[1] :
                v[1][ei] \in {MyEnum.variants[1].val, MyEnum.variants[Len(MyEnum.variants)].val}}
    ELSE {Default} \cup
         UNION {{[Default EXCEPT ![fi] = <<x>>] :
                    x \in PatValues(XC2Macrocell["JedSmall"].fields[fi].pat)} :
                fi \in 1..Len(Default)}

Permute(ws, perm) == [i \in 1..Len(ws) |-> ws[perm[i]]]

\* Calls on MyStruct1 and on XC2Macrocell under every generated LayoutVariant,
\* inside the grid.
InitOrder ==
    /\ PatIdle /\ MacroIdle /\ ConcIdle
    /\ \/ InitCall("MyStruct1", "()", FALSE, TRUE)
       \/ \E v \in GeneratedVariants : InitCall("XC2Macrocell", v, FALSE, TRUE)

\* value.encode(fuses, offset, mirror), its assignments made in some order.
EncodePermuted ==
    /\ pc = "init"
    /\ \E v \in OrderValues(ty) : \E rev \in BOOLEAN :
         LET ws == EncodeFields(CallLayout, v, offset, mirror, WildBits(wild), rev, 1)
         IN \E perm \in Orders(Len(ws)) :
              \E r \in {RunWrites(fuses, Permute(ws, perm), 1, {})} :
                 /\ value' = v
                 /\ fuses' = r.fuses
                 /\ writes' = r.writes
                 /\ pc' = IF r.panicked THEN "encode_panicked" ELSE "encoded"
    /\ UNCHANGED <<ty, variant, extra, fuses0, offset, mirror, wild, first, result, reads>>
    /\ UNCHANGED <<patVars, macroVars, concVars>>

NextOrder == EncodePermuted

SpecOrder == InitOrder /\ [][NextOrder]_vars

----------------------------------------------------------------------------
\* A grid with other content outside the layout.

\* The coordinates offset + (mirror ? -1 : 1) * p of the local positions p of
\* a schema.
SchemaCells(s, off, mir) ==
    {[d \in 1..s.idx_dims |-> off[d] + (IF mir[d] THEN -1 ELSE 1) * p[d]] :
        p \in LocalPositions(s)}

\* The caller's grid differs in a cell that is none of the layout's.
Disturb ==
    /\ pc = "init" /\ fuses = fuses0
    /\ \E idx \in GridDomain(fuses.len) \ SchemaCells(CallLayout, offset, mirror) :
         fuses' = GridSet(fuses, idx, ~GridGet(fuses, idx))
    /\ UNCHANGED <<ty, variant, extra, fuses0, offset, mirror, wild, first, value, result,
                   writes, reads, pc>>
    /\ UNCHANGED <<patVars, macroVars, concVars>>

NextDisturb == Disturb \/ Decode

SpecDisturb == Init /\ [][NextDisturb]_vars

----------------------------------------------------------------------------
\* Two encodes into one grid.

\* Calls on MyEnum and XC2Macrocell (a layout without and one with a
\* constant entry) inside the grid.
InitTwice ==
    /\ PatIdle /\ MacroIdle /\ ConcIdle
    /\ \/ InitCall("MyEnum", "()", FALSE, TRUE)
       \/ \E v \in {"JedSmall", "JedLargeBuried"} : InitCall("XC2Macrocell", v, FALSE, TRUE)

\* A second value.encode(fuses, offset, mirror, extra) into the grid the
\* first left, at the same offset and mirror.  Of XC2Macrocell, both values
\* are Default or differ from it in one field.
EncodeAgain ==
    /\ pc = "encoded"
    /\ ty \notin TestTypes => value \in OrderValues(ty)
    /\ \E v \in (IF ty \in TestTypes THEN FragValues(ty) ELSE OrderValues(ty)) :
         \E rev \in BOOLEAN :
            \E r \in {FragEncode(ty, variant, v, fuses, offset, mirror, extra,
                                 WildBits(wild), rev)} :
               /\ first' = [value |-> value, fuses |-> fuses]
               /\ value' = v
               /\ fuses' = r.fuses
               /\ writes' = writes \cup r.writes
               /\ pc' = IF r.panicked THEN "reencode_panicked" ELSE "reencoded"
    /\ UNCHANGED <<ty, variant, extra, fuses0, offset, mirror, wild, result, reads>>
    /\ UNCHANGED <<patVars, macroVars, concVars>>

NextTwice == Encode \/ EncodeAgain

SpecTwice == InitTwice /\ [][NextTwice]_vars


----------------------------------------------------------------------------
\* Properties of the Fragment codec.

\* The coordinate-valued bits of a layout: <<element, bit name>>.
LocBits(s) ==
    UNION {{<<k, n>> : n \in {m \in DOMAIN s.fields[s.elems[k][1]].patbits :
                                s.fields[s.elems[k][1]].patbits[m].pos.kind = "Loc"}} :
              k \in 1..Len(s.elems)}

\* offset + (mirror ? -1 : 1) * p per dimension, p the local position (element
\* offset plus bit position) of bit b = <<element, bit name>>.
Resolved(s, b) ==
    LET f == s.fields[s.elems[b[1]][1]]
        ei == s.elems[b[1]][2]
    IN [d \in 1..s.idx_dims |->
          offset[d] + (IF mirror[d] THEN -1 ELSE 1) *
                          (f.arr_off[ei][d] + f.patbits[b[2]].pos.locs[d])]

\* The bit the Pattern encoder gives for bit b of the encoded value.
CanonicalBit(s, b) ==
    LET fi == s.elems[b[1]][1]
        ei == s.elems[b[1]][2]
        f == s.fields[fi]
    IN PatEncode(f.pat, value[fi][ei], WildBits(wild))[name_to_pos(f.pat, b[2]) + 1]

\* encode ran before the decode whose result the state holds.
Redecoded == pc \in {"decoded", "decode_panicked"} /\ value # NoValue

\* C1: Fragment round-trip.  For MyEnum and MyStruct1, every value, every grid
\* content and every offset and mirror that keep the resolved coordinates
\* inside the grid (SpecArr draws no other), decoding the grid encode left
\* returns Ok of the encoded value.
C1_FragmentRoundTrip == Redecoded => result = Ok(value)

\* A mirrored MyStruct1 round trip on an all-true grid.
C1_Witness ==
    /\ Redecoded /\ ty = "MyStruct1" /\ mirror[1]
    /\ fuses0.cell[1]
    /\ value[1][2] = "Choice3" /\ value[1][6] = "Choice2" /\ value[2][1]
    /\ result = Ok(value)

\* The layout has ff_in_ibuf as the constant false.
Buried == variant = "JedLargeBuried" \/ (variant = "JedLarge" /\ extra)

\* C2 as stated: under every LayoutVariant of XC2Macrocell, decoding what
\* encode wrote returns Ok of the encoded value.
C2_MacrocellRoundTrip == Redecoded => result = Ok(value)

\* C2 amended: the round trip returns the encoded value, except that under
\* JedLargeBuried (and JedLarge with the buried flag) ff_in_ibuf comes back
\* false.
C2_MacrocellRoundTripUnburied ==
    Redecoded => result = Ok(IF Buried THEN [value EXCEPT ![9] = <<FALSE>>] ELSE value)

\* A buried macrocell encoded with ff_in_ibuf = true.
C2_Witness ==
    /\ Redecoded /\ variant = "JedLarge" /\ extra
    /\ value[9] = <<TRUE>>
    /\ result = Ok([value EXCEPT ![9] = <<FALSE>>])

\* C6: coordinate algebra.  Every cell encode assigned and every cell decode
\* read is offset[d] + (mirror[d] ? -1 : 1) * p[d] in every dimension d, p the
\* local position of the bit; and for the same bit the cell encode assigned is
\* the cell decode read.
C6_CoordinateAlgebra ==
    /\ \A t \in writes \cup reads : t[3] = Resolved(CallLayout, <<t[1], t[2]>>)
    /\ \A w \in writes : \A r \in reads : (w[1] = r[1] /\ w[2] = r[2]) => w[3] = r[3]

\* A mirrored SynthStruct at a non-zero offset, encoded then decoded whole.
C6_Witness ==
    /\ pc = "decoded" /\ ty = "SynthStruct" /\ mirror[1] /\ offset[1] > 4
    /\ Cardinality(writes) = 5 /\ reads = writes

\* C7: after encode, the cell at the resolved coordinate of every
\* coordinate-valued bit was assigned and holds the canonical bit of the
\* field's encoded value, negated when the entry is inverted.  MyEnum::Choice2
\* at offset 0, not mirrored, leaves cell 1 false and cell 2 true.
C7_EncodeWrites ==
    pc = "encoded" =>
        /\ \A b \in LocBits(CallLayout) :
             LET s == CallLayout
                 bi == s.fields[s.elems[b[1]][1]].patbits[b[2]]
                 cell == Resolved(s, b)
             IN /\ <<b[1], b[2], cell>> \in writes
                /\ GridGet(fuses, cell) =
                      (IF bi.invert THEN ~CanonicalBit(s, b) ELSE CanonicalBit(s, b))
        /\ (ty = "MyEnum" /\ value = << <<"Choice2">> >> /\ offset = <<0>> /\ ~mirror[1])
              => (~GridGet(fuses, <<1>>) /\ GridGet(fuses, <<2>>))

\* SynthStruct's inverted bit: A0 has bit "0" = 1, and the cell holds false.
C7_Witness ==
    /\ pc = "encoded" /\ ty = "SynthStruct" /\ offset = <<1>> /\ ~mirror[1]
    /\ value[1][1] = "A0" /\ fuses0.cell[2] /\ ~fuses.cell[2]
    /\ value[2][1] = "B1" /\ fuses.cell[3] /\ ~fuses.cell[4]

\* C8: encode frame.  After encode, whether it completed or panicked, every
\* cell that is not the resolved coordinate of a coordinate-valued bit holds
\* what the caller supplied, and no assignment came from a constant entry.
C8_EncodeFrame ==
    pc \in {"encoded", "encode_panicked"} =>
        /\ \A idx \in GridDomain(fuses.len) :
              idx \notin {Resolved(CallLayout, b) : b \in LocBits(CallLayout)}
                 => GridGet(fuses, idx) = GridGet(fuses0, idx)
        /\ \A w \in writes : <<w[1], w[2]>> \in LocBits(CallLayout)

\* SynthStruct (bit "1" of a is the constant false) encoded over a grid whose
\* cell outside the layout was true, and stays true.
C8_Witness ==
    /\ pc = "encoded" /\ ty = "SynthStruct" /\ offset = <<0>> /\ ~mirror[1]
    /\ fuses0.cell[6] /\ fuses.cell[6]
    /\ fuses # fuses0
    /\ Cardinality(writes) = 5

\* What decoding element k alone gives.
ElemOutcome(s, k) ==
    LET f == s.fields[s.elems[k][1]]
        ei == s.elems[k][2]
    IN DecodeField(s.idx_dims, f, k, fuses, ElemOffset(f, ei, offset, mirror),
                   mirror, FALSE).res

\* The elements whose decode fails.
FailingElems ==
    {k \in 1..Len(CallLayout.elems) : ElemOutcome(CallLayout, k).kind # "Ok"}

\* C9: decode returns no partial composite.  When the decode of some element
\* fails, decode's outcome is that of the first failing element in declaration
\* and index order, unchanged; it is Ok only when every element decoded, and
\* then holds every element's value.
C9_DecodeAllOrFirstFailure ==
    pc \in {"decoded", "decode_panicked"} =>
        /\ \A k \in FailingElems :
              (\A j \in FailingElems : k <= j) => result = ElemOutcome(CallLayout, k)
        /\ FailingElems = {} =>
              result = Ok(Composite(CallLayout,
                            [k \in 1..Len(CallLayout.elems) |->
                                ElemOutcome(CallLayout, k).val]))
        /\ result.kind = "Ok" => FailingElems = {}

\* Field a, element b[0] and element b[1] of SynthStruct all fail, b[1] by
\* reaching outside the grid; decode returns a's error.
C9_Witness ==
    /\ pc = "decoded" /\ ty = "SynthStruct"
    /\ FailingElems = {1, 2, 3}
    /\ ElemOutcome(CallLayout, 2) = Err(NoMatchingVariant(SynthB))
    /\ ElemOutcome(CallLayout, 3) = Panic
    /\ result = Err(NoMatchingVariant(SynthA))

AllResolvedInGrid ==
    \A b \in LocBits(CallLayout) :
        \A d \in 1..CallLayout.idx_dims :
            /\ Resolved(CallLayout, b)[d] >= 0
            /\ Resolved(CallLayout, b)[d] < fuses.len[d]

\* C11 as stated: a resolved coordinate that is negative or beyond the grid
\* is fatal.  No call assigns or reads a cell other than the resolved
\* coordinate of the bit, and a call that completed (encode returned, decode
\* returned Ok) resolved every bit to a cell of the grid.
C11_OutOfGridIsFatal ==
    /\ \A t \in writes \cup reads : t[3] = Resolved(CallLayout, <<t[1], t[2]>>)
    /\ pc = "encoded" => AllResolvedInGrid
    /\ (pc = "decoded" /\ result.kind = "Ok") => AllResolvedInGrid

\* MyEnum encoded unmirrored at offset usize::MAX: the bits at local
\* positions 1 and 2 resolve beyond the grid, and cells 0 and 1 are assigned.
C11_SilentWrap ==
    /\ pc = "encoded" /\ ty = "MyEnum" /\ ~mirror[1]
    /\ offset = <<UsizeModulus - 1>>
    /\ writes = {<<1, "0", <<0>>>>, <<1, "1", <<1>>>>}
    /\ ~AllResolvedInGrid

\* A 1-D grid with its cells in reverse order.
ReverseGrid(grid) == Grid(grid.len, Reverse(grid.cell))

\* The offset whose cell is the image of cell offset[1] in the reversed grid.
ReflectedOffset == <<fuses.len[1] - 1 - offset[1]>>

\* C12: mirroring reflects about the origin.  On a 1-D grid of n cells, what
\* encode with mirror = [true] at offset o leaves (completed or panicked) is
\* the cell-reversed image of what encode with mirror = [false] at offset
\* n - 1 - o leaves of the reversed initial grid, and decode with mirror =
\* [true] at o returns what decode with mirror = [false] at n - 1 - o returns
\* on the reversed grid.
C12_MirrorReflects ==
    (pc \notin {"init", "idle"} /\ Len(offset) = 1 /\ mirror[1]) =>
        /\ pc \in {"encoded", "encode_panicked"} =>
              \E rev \in BOOLEAN :
                 LET r == FragEncode(ty, variant, value, ReverseGrid(fuses0),
                                     ReflectedOffset, <<FALSE>>, extra, WildBits(wild), rev)
                 IN /\ r.panicked = (pc = "encode_panicked")
                    /\ ReverseGrid(r.fuses) = fuses
        /\ pc \in {"decoded", "decode_panicked"} =>
              \A rev \in BOOLEAN :
                 FragDecode(ty, variant, ReverseGrid(fuses), ReflectedOffset, <<FALSE>>,
                            extra, rev).res = result

\* MyEnum::Choice2 encoded mirrored at offset 2 into an all-false grid: cell 0
\* true, cells 1 and 2 false.
C12_Witness ==
    /\ pc = "encoded" /\ ty = "MyEnum" /\ mirror[1] /\ offset = <<2>>
    /\ value = << <<"Choice2">> >>
    /\ \A i \in 1..fuses0.len[1] : ~fuses0.cell[i]
    /\ fuses.cell[1] /\ ~fuses.cell[2] /\ ~fuses.cell[3]

\* Element [a][b][c] of field_enum: [[[MyEnum; DIM1]; 1]; DIM2] in row-major
\* order, from 0.
FlatIndex(a, b, c) == (a * 1 + b) * DIM1 + c

\* The cell of local position p in the call.
CellAt(p) == <<offset[1] + (IF mirror[1] THEN -1 ELSE 1) * p>>

\* C13: array fields.  Element i of MyStruct1::field_enum (row-major, i from
\* 0) is encoded to and decoded from the cells at local positions 1 + 2i and
\* 2 + 2i, mirrored like a bit position: offset + 1 + 2i and offset + 2 + 2i
\* unmirrored, 12 - (1 + 2i) and 12 - (2 + 2i) mirrored at offset 12; the one
\* element of field_bool is at local position 0; no other cell is accessed,
\* and a call placed inside the grid (SpecArr draws no other) completes.
C13_ArrayElementOffsets ==
    (ty = "MyStruct1" /\ pc # "init") =>
        LET cells == {<<i + 1, "0", CellAt(1 + 2 * i)>> : i \in 0..(DIM1 * DIM2 - 1)}
                       \cup {<<i + 1, "1", CellAt(2 + 2 * i)>> : i \in 0..(DIM1 * DIM2 - 1)}
                       \cup {<<DIM1 * DIM2 + 1, "0", CellAt(0)>>}
        IN /\ pc \in {"encoded", "decoded"}
           /\ pc = "encoded" =>
                /\ writes = cells
                /\ \A i \in 0..(DIM1 * DIM2 - 1) :
                      <<GridGet(fuses, CellAt(1 + 2 * i)), GridGet(fuses, CellAt(2 + 2 * i))>>
                          = PatEncode(MyEnum, value[1][i + 1], WildBits(wild))
                /\ GridGet(fuses, CellAt(0)) = value[2][1]
           /\ pc = "decoded" =>
                /\ reads = cells
                /\ result.kind = "Ok"
                /\ \A i \in 0..(DIM1 * DIM2 - 1) :
                      Ok(result.val[1][i + 1]) =
                          PatDecode(MyEnum, <<GridGet(fuses, CellAt(1 + 2 * i)),
                                              GridGet(fuses, CellAt(2 + 2 * i))>>)
                /\ result.val[2][1] = GridGet(fuses, CellAt(0))
           /\ (mirror[1] /\ offset = <<12>>) =>
                \A t \in writes \cup reads :
                    t[1] <= DIM1 * DIM2 =>
                        t[3] = <<12 - ((IF t[2] = "0" THEN 1 ELSE 2) + 2 * (t[1] - 1))>>

\* pattern_array_encode: [[[Choice1, Choice2]], [[Choice3, Choice4]],
\* [[Choice1, Choice4]]] and field_bool [true], mirrored at offset 12 into an
\* all-false grid.
C13_Witness ==
    /\ pc = "encoded" /\ ty = "MyStruct1" /\ mirror[1] /\ offset = <<12>>
    /\ \A i \in 1..fuses0.len[1] : ~fuses0.cell[i]
    /\ value[1][FlatIndex(0, 0, 0) + 1] = "Choice1"
    /\ value[1][FlatIndex(0, 0, 1) + 1] = "Choice2"
    /\ value[1][FlatIndex(1, 0, 0) + 1] = "Choice3"
    /\ value[1][FlatIndex(1, 0, 1) + 1] = "Choice4"
    /\ value[1][FlatIndex(2, 0, 0) + 1] = "Choice1"
    /\ value[1][FlatIndex(2, 0, 1) + 1] = "Choice4"
    /\ value[2][1]
    /\ SubSeq(fuses.cell, 1, 13) =
          <<TRUE, TRUE, FALSE, FALSE, TRUE, TRUE, FALSE, TRUE, TRUE, FALSE,
            FALSE, FALSE, TRUE>>

\* The LayoutVariant a JedLarge call is to forward to.
Forwarded == IF extra THEN "JedLargeBuried" ELSE "JedLargeUnburied"

\* C14: runtime layout dispatch.  A JedLarge encode leaves the grid, and
\* assigns the cells, that the JedLargeBuried implementation (flag true) or
\* the JedLargeUnburied implementation (flag false) does with the same value,
\* grid, offset and mirror; a JedLarge decode returns, and reads, what that
\* implementation does.
C14_JedLargeDispatch ==
    variant = "JedLarge" =>
        /\ pc \in {"encoded", "encode_panicked"} =>
              \A rev \in BOOLEAN :
                 LET r == FragEncode(ty, Forwarded, value, fuses0, offset, mirror,
                                     FALSE, WildBits(wild), rev)
                 IN /\ r.fuses = fuses
                    /\ r.writes = writes
                    /\ r.panicked = (pc = "encode_panicked")
        /\ pc \in {"decoded", "decode_panicked"} =>
              \A rev \in BOOLEAN :
                 LET r == FragDecode(ty, Forwarded, fuses, offset, mirror, FALSE, rev)
                 IN r.res = result /\ r.reads = reads

\* A buried macrocell with ff_in_ibuf = true encoded through JedLarge: the
\* JedLargeUnburied implementation would have left another grid.
C14_Witness ==
    /\ pc = "encoded" /\ variant = "JedLarge" /\ extra
    /\ value[9] = <<TRUE>>
    /\ fuses # FragEncode(ty, "JedLargeUnburied", value, fuses0, offset, mirror,
                          FALSE, WildBits(wild), FALSE).fuses

----------------------------------------------------------------------------
\* Properties of the Pattern codec.

\* The variants (1-based) whose every non-wildcard character equals the bit
\* supplied at its position.
Consistent ==
    {i \in 1..Len(pat.variants) :
        \A j \in 1..Len(pat.variants[i].bits) :
            \/ pat.variants[i].bits[j] \in {"x", "X"}
            \/ (pat.variants[i].bits[j] = "1") = parr[j]}

\* decode has run on the bit vector.
PatDecoded == ppc \in {"decoded", "redecoded"}

\* C3: Pattern round-trip.  For bool and every declared enum, decoding what
\* encode gave for a variant returns Ok of that variant, whatever bits encode
\* put at the wildcard positions.
C3_PatternRoundTrip ==
    (ppc = "redecoded" /\ pat \in DeclaredPatterns) => pres = Ok(pval)

\* XC2MCFeedbackMode::Disabled ("X1") encoded with a 1 at the wildcard.
C3_Witness ==
    /\ ppc = "redecoded" /\ pat = XC2MCFeedbackMode /\ pval = "Disabled"
    /\ parr = <<TRUE, TRUE>> /\ pres = Ok("Disabled")

\* C4: when several variants are consistent with the supplied bits, decode
\* returns the one declared first.
C4_FirstMatchWins ==
    PatDecoded =>
        \A i \in Consistent :
            (\A j \in Consistent : i <= j) => pres = Ok(pat.variants[i].val)

\* The second and third variant both match, the first does not.
C4_Witness ==
    /\ ppc = "decoded" /\ pat.name = "Synth"
    /\ Consistent = {2, 3}
    /\ pat.variants[2].bits # pat.variants[3].bits
    /\ pres = Ok(1)

\* C5: decode returns NoMatchingVariant exactly when no variant is consistent
\* with the supplied bits, and Ok whenever one is.
C5_NoMatchIffNoneConsistent ==
    PatDecoded =>
        /\ pres = Err(NoMatchingVariant(pat)) <=> Consistent = {}
        /\ Consistent # {} => pres.kind = "Ok"

\* Three variants, none consistent with the bits.
C5_Witness ==
    /\ ppc = "decoded" /\ Len(pat.variants) = 3
    /\ Consistent = {}
    /\ pres = Err(NoMatchingVariant(pat))
----------------------------------------------------------------------------
\* Properties of the #[bitfragment] macro.

\* The #[pat_bits] attributes (by index) of a field that are the ones of the
\* macro's variant.
SelectedAttrs(f) ==
    {a \in 1..Len(f) : f[a].kind = "pat_bits" /\ f[a].frag_var = input.encode_variant}

\* The settings of those attributes: <<attribute, setting>>.
SelectedSettings(f) ==
    UNION {{<<a, k>> : k \in 1..Len(f[a].args)} : a \in SelectedAttrs(f)}

\* Some field declares a bit name twice for the macro's variant.
DuplicateDeclared ==
    \E fi \in 1..Len(input.fields) :
        LET f == input.fields[fi]
        IN \E s \in SelectedSettings(f) : \E t \in SelectedSettings(f) :
              s # t /\ f[s[1]].args[s[2]].bit_id = f[t[1]].args[t[2]].bit_id

\* Some field declares, for the macro's variant, a coordinate whose number of
\* components is not the declared dimensions.
DimensionMismatched ==
    \E fi \in 1..Len(input.fields) :
        LET f == input.fields[fi]
        IN \E s \in SelectedSettings(f) :
              \/ f[s[1]].args[s[2]].expr = <<"int">> /\ input.idx_dims # 1
              \/ f[s[1]].args[s[2]].expr = <<"tuple">> /\ input.idx_dims # 2

\* The macro returned.
Expanded == output \notin {"idle", "none"}

\* The compilation fails with an error.
Reported == emitted # {} \/ output \in {"compile_error", "panic"}

\* The item has what stops the macro before its end: a position literal that
\* is no isize, or a field whose second #[pat_bits] attribute of the macro's
\* variant is its last attribute.
StopsEarly ==
    \E fi \in 1..Len(input.fields) :
        LET f == input.fields[fi]
        IN \/ \E a \in 1..Len(f) : \E k \in 1..Len(f[a].args) : f[a].args[k].expr = <<"huge">>
           \/ Cardinality(SelectedAttrs(f)) >= 2 /\ Len(f) \in SelectedAttrs(f)

\* C15 as stated: with a duplicate bit name, or a coordinate of the wrong
\* number of components, for the same field and LayoutVariant, an error is
\* reported and the macro emits the item without an implementation.
C15_RejectedItemEmitted ==
    (Expanded /\ (DuplicateDeclared \/ DimensionMismatched)) =>
        Reported /\ output = "item"

\* C15 amended: in both cases an error is reported and no implementation is
\* generated; the item is emitted without one unless the macro stops before
\* its end, and then only a compile error is emitted.
C15_RejectedNoImpl ==
    (Expanded /\ (DuplicateDeclared \/ DimensionMismatched)) =>
        /\ Reported
        /\ output # "impl"
        /\ ~StopsEarly => output = "item"
        /\ output = "item" => emitted \cap {DuplicateBit, DimMismatch, OnlyOneAttr} # {}

\* #[pat_bits("0" = 1, "0" = (1, 2))] with dimensions = 1: both errors are
\* reported and the item is emitted alone.
C15_Witness ==
    /\ output = "item" /\ input.idx_dims = 1 /\ Len(input.fields) = 1
    /\ DuplicateDeclared /\ DimensionMismatched
    /\ emitted = {DuplicateBit, DimMismatch}

----------------------------------------------------------------------------
\* Properties of the canonical bit order and of the documentation renderer.

\* The bit names a Pattern declares.
DeclaredBitNames(p) == {BitNameTable[i] : i \in 1..BITS_COUNT(p)}

PadRight(str, width) == str \o Repeat(" ", width - Len(str))

\* The length of the longest of a set of strings.
Longest(S) == Max({0} \cup {Len(str) : str \in S})

\* The lines of the table of Pattern p as described: header, separator, one
\* row per variant in declaration order.
TableLines(p) ==
    LET vars_ == 0..(VARIANT_COUNT(p) - 1)
        name_w == Longest({variantname(p, i) : i \in vars_})
        desc_w == Longest({variantdesc(p, i) : i \in vars_})
        names == BitString([i \in 1..BITS_COUNT(p) |-> pos_to_name(p, i - 1)])
    IN << names \o " | " \o Repeat(" ", name_w) \o " |",
          Repeat("-", BITS_COUNT(p)) \o "-+-" \o Repeat("-", name_w) \o "-+-"
              \o Repeat("-", desc_w) >>
       \o [k \in 1..VARIANT_COUNT(p) |->
             BitString(variantbits(p, k - 1)) \o " | "
                 \o PadRight(variantname(p, k - 1), name_w) \o " | "
                 \o variantdesc(p, k - 1)]

\* The lines, each ended by a newline.
RECURSIVE JoinLines(_)
JoinLines(lines) ==
    IF lines = <<>> THEN "" ELSE Head(lines) \o "\n" \o JoinLines(Tail(lines))

\* C17: docs_as_ascii_table returns VARIANT_COUNT + 2 lines: the header with
\* the bit names in position order, the separator, and per variant in
\* declaration order its bit-string, " | ", its name padded with spaces to the
\* longest name, " | ", its description.  For bool it is the table of the
\* bool_bitpattern_docs test, byte for byte.
C17_DocsTable ==
    ppc = "documented" =>
        /\ docs = JoinLines(TableLines(pat))
        /\ Len(TableLines(pat)) = VARIANT_COUNT(pat) + 2
        /\ pat = Bool =>
              docs = "0 |       |\n--+-------+------\n0 | false | false\n1 | true  | true\n"

\* The table of bool.
C17_Witness ==
    /\ ppc = "documented" /\ pat = Bool
    /\ docs = "0 |       |\n--+-------+------\n0 | false | false\n1 | true  | true\n"

----------------------------------------------------------------------------
\* Properties of concurrent calls

\* What call c alone gives on the grid as its caller supplied it.
AloneDecode(c) ==
    GenDecode(Generated(calls[c].t, "()"), grids0[calls[c].g],
              calls[c].off, calls[c].mir, calls[c].rev)

AloneEncode(c) ==
    GenEncode(Generated(calls[c].t, "()"), calls[c].val, grids0[calls[c].g],
              calls[c].off, calls[c].mir, WildBits(calls[c].w), calls[c].rev)

\* C18: however the cell reads of several decode calls on one grid, or the
\* cell accesses of encode and decode calls on disjoint grids, interleave,
\* every finished call has the result it has when it runs alone, a finished
\* encode leaves its grid as it does alone, and a grid that is only decoded
\* keeps its content.
C18_InterleavingsAgree ==
    /\ \A c \in DOMAIN calls :
         calls[c].done =>
            IF calls[c].op = "decode"
            THEN calls[c].res = AloneDecode(c).res
            ELSE /\ grids[calls[c].g] = AloneEncode(c).fuses
                 /\ (calls[c].res = Panic) = AloneEncode(c).panicked
    /\ \A g \in DOMAIN grids :
         (\A c \in DOMAIN calls : calls[c].g = g => calls[c].op = "decode")
            => grids[g] = grids0[g]

\* Two decodes of SynthStruct on the same grid have both finished, one with a
\* value and the other with an error.
C18_Witness ==
    /\ Len(calls) = 2
    /\ calls[1].done /\ calls[2].done
    /\ calls[1].g = calls[2].g
    /\ calls[1].t = "SynthStruct"
    /\ calls[1].res.kind = "Ok" /\ calls[2].res.kind = "Err"

----------------------------------------------------------------------------
\* Properties of decode_arr

\* The decode_arr of element k of the call's layout, its bits handled in
\* order rev.
ElemBuffer(k, rev) ==
    LET s == CallLayout
        f == s.fields[s.elems[k][1]]
    IN DecodeEachBit(s.idx_dims, f, k, fuses,
                     ElemOffset(f, s.elems[k][2], offset, mirror), mirror, rev)

\* The elements whose decode_arr a finished decode has built: those up to
\* the first whose decode fails.
Built ==
    {k \in 1..Len(CallLayout.elems) :
        \A j \in 1..(k - 1) : ElemOutcome(CallLayout, j).kind = "Ok"}

\* Bit n of element k is in decode_arr as a grid bit: the cell at the resolved
\* coordinate, complemented iff the entry's invert flag is set, and read.
GridBitPlaced(k, n, out) ==
    LET s == CallLayout
        f == s.fields[s.elems[k][1]]
        bi == f.patbits[n]
        index == DecodeIndex(s.idx_dims, ElemOffset(f, s.elems[k][2], offset, mirror),
                             mirror, bi.pos.locs)
    IN /\ out.res.val[name_to_pos(f.pat, n) + 1] = (GridGet(fuses, index) # bi.invert)
       /\ <<k, n, index>> \in reads

\* Bit n of element k is in decode_arr as the constant c, and no cell is read
\* for it.
ConstantPlaced(k, n, c, out) ==
    /\ out.res.val[name_to_pos(CallLayout.fields[CallLayout.elems[k][1]].pat, n) + 1] = c
    /\ \A r \in reads : ~(r[1] = k /\ r[2] = n)

\* The bits of the decode_arr of every element built are placed as said by
\* constant(bi): the value a constant entry bi gives.
BufferContents(constant(_)) ==
    pc \in {"decoded", "decode_panicked"} =>
        \A k \in Built : \A rev \in BOOLEAN :
            LET f == CallLayout.fields[CallLayout.elems[k][1]]
                out == ElemBuffer(k, rev)
            IN out.res.kind = "Ok" =>
                 \A n \in DOMAIN f.patbits :
                    IF f.patbits[n].pos.kind = "Loc" THEN GridBitPlaced(k, n, out)
                    ELSE ConstantPlaced(k, n, constant(f.patbits[n]), out)

BufferLengthIsBitsCount(k) ==
    \A rev \in BOOLEAN :
        ElemBuffer(k, rev).res.kind = "Ok" =>
            Len(ElemBuffer(k, rev).res.val)
                = BITS_COUNT(CallLayout.fields[CallLayout.elems[k][1]].pat)

\* C20: for every Pattern field, the buffer Fragment decode passes to the
\* Pattern's decode has length exactly BITS_COUNT of that Pattern, also when
\* the field's schema declares positions for only some of its bit names.
C20_BufferLength ==
    pc \in {"decoded", "decode_panicked"} =>
        \A k \in Built : BufferLengthIsBitsCount(k)

\* SynthPartial, which declares bit "0" of the two bits of SynthB, decoded: a
\* one-element buffer is passed on.
C20_ShortBuffer ==
    /\ pc \in {"decoded", "decode_panicked"} /\ ty = "SynthPartial" /\ offset = <<0>> /\ ~mirror[1]
    /\ fuses.cell[1]
    /\ ElemBuffer(1, FALSE).res = Ok(<<TRUE>>)
    /\ reads = {<<1, "0", <<0>>>>}

----------------------------------------------------------------------------
\* Translation of the coordinate resolver

\* A one-dimensional grid without its first c cells: cell i of it is cell
\* i + c of grid.
Shifted(grid, c) ==
    Grid(<<grid.len[1] - c>>, [i \in 1..(grid.len[1] - c) |-> grid.cell[i + c]])

\* v with c added on every dimension.
Plus(v, c) == [d \in 1..Len(v) |-> v[d] + c]

\* In usize arithmetic, for every coordinate-valued bit of the call's layout:
\* the index at offset + c is the index at offset plus c, and the index of
\* the position shifted by c is the index plus c, minus c when mirrored; in
\* encode and in decode.
ResolverTranslates(c) ==
    \A b \in LocBits(CallLayout) :
        LET s == CallLayout
            f == s.fields[s.elems[b[1]][1]]
            ei == s.elems[b[1]][2]
            locs == f.patbits[b[2]].pos.locs
        IN \A d \in 1..s.idx_dims :
             /\ EncodeIndex(s.idx_dims, ElemOffset(f, ei, Plus(offset, c), mirror), mirror, locs)[d]
                  = AsUsize(EncodeIndex(s.idx_dims, ElemOffset(f, ei, offset, mirror), mirror, locs)[d] + c)
             /\ DecodeIndex(s.idx_dims, ElemOffset(f, ei, Plus(offset, c), mirror), mirror, locs)[d]
                  = AsUsize(DecodeIndex(s.idx_dims, ElemOffset(f, ei, offset, mirror), mirror, locs)[d] + c)
             /\ EncodeIndex(s.idx_dims, ElemOffset(f, ei, offset, mirror), mirror, Plus(locs, c))[d]
                  = AsUsize(EncodeIndex(s.idx_dims, ElemOffset(f, ei, offset, mirror), mirror, locs)[d]
                            + (IF mirror[d] THEN -c ELSE c))

\* The call's encode, its bits handled in order rev, is the one the state
\* shows.
EncodedInOrder(rev) ==
    LET r == GenEncode(CallLayout, value, fuses0, offset, mirror, WildBits(wild), rev)
    IN r.fuses = fuses /\ r.panicked = (pc = "encode_panicked")

\* The call, made at offset - c on the grid shifted by c cells, ends as the
\* call made at offset on the whole grid did.
ShiftedEncodeAgrees(c, rev) ==
    LET r == GenEncode(CallLayout, value, Shifted(fuses0, c), Plus(offset, -c), mirror,
                       WildBits(wild), rev)
    IN r.fuses = Shifted(fuses, c) /\ r.panicked = (pc = "encode_panicked")

\* Every coordinate the layout resolves at offset - c is 0 or more.
NoneBelowShifted(c) ==
    \A p \in LocalPositions(CallLayout) :
        offset[1] - c + (IF mirror[1] THEN -1 ELSE 1) * p[1] >= 0

\* The shifts of the call's grid that keep its offset a cell.
Shifts == {c \in 1..MaxShift : c <= offset[1] /\ c < fuses0.len[1]}

\* C21 as stated: an encode at offset o + c always equals the encode at offset
\* o into the grid shifted by c cells.
C21_ShiftedGridAlways ==
    pc \in {"encoded", "encode_panicked"} =>
        \A c \in Shifts : \A rev \in BOOLEAN :
            EncodedInOrder(rev) => ShiftedEncodeAgrees(c, rev)

\* C21: translation composability.  In usize arithmetic resolve(offset + c,
\* mirror, p) = resolve(offset, mirror, p) + c for both mirror values, and a
\* local position shifted by c shifts the coordinate by +c unmirrored and -c
\* mirrored.  An encode at offset o + c equals the encode at offset o into the
\* grid shifted by c cells when no coordinate resolved at offset o is below 0.
C21_Translation ==
    /\ pc # "init" => \A c \in (-MaxShift)..MaxShift : ResolverTranslates(c)
    /\ pc \in {"encoded", "encode_panicked"} =>
         \A c \in Shifts : \A rev \in BOOLEAN :
            (EncodedInOrder(rev) /\ NoneBelowShifted(c)) => ShiftedEncodeAgrees(c, rev)

\* MyEnum encoded mirrored at offset 3 (cells 2 and 1), which is the encode at
\* offset 2 into the grid without its first cell.
C21_Witness ==
    /\ pc = "encoded" /\ ty = "MyEnum" /\ mirror[1] /\ offset = <<3>>
    /\ fuses # fuses0
    /\ NoneBelowShifted(1)
    /\ ShiftedEncodeAgrees(1, FALSE)

----------------------------------------------------------------------------
\* Order of the assignments

\* C22: for MyStruct1 and every XC2Macrocell layout, placed inside the grid,
\* an encode whose assignments are made in another order (a rotation, the
\* reversal, two that follow each other exchanged) leaves the grid the encode in declaration
\* and index order leaves; no two assignments of a call go to the same cell,
\* so this is so for every order.
C22_OrderNotObservable ==
    pc # "init" =>
        /\ pc = "encoded"
        /\ \A rev \in BOOLEAN :
             fuses = GenEncode(CallLayout, value, fuses0, offset, mirror,
                               WildBits(wild), rev).fuses
        /\ \A w1 \in writes : \A w2 \in writes : w1[3] = w2[3] => w1 = w2

\* MyStruct1 encoded with elements of different values, which changed the grid.
C22_Witness ==
    /\ pc = "encoded" /\ ty = "MyStruct1"
    /\ value[1][1] # value[1][2]
    /\ fuses # fuses0
    /\ Cardinality(writes) = 2 * DIM1 * DIM2 + 1

----------------------------------------------------------------------------
\* Independence of the LayoutVariants

\* The attributes of a field without the #[pat_bits] attributes of other
\* variants than v.
OnlyOwn(f, v) == SelectSeq(f, LAMBDA a : a.kind # "pat_bits" \/ a.frag_var = v)

\* What the macro returns for the fields from the k-th on: errors whether
\* errors_occurred, missing whether a field so far has no patbits.
RECURSIVE ExpandFrom(_, _, _, _, _, _)
ExpandFrom(fields, k, v, dims, errors, missing) ==
    IF k > Len(fields)
    THEN (IF errors THEN "item" ELSE IF missing THEN "panic" ELSE "impl")
    ELSE LET r == parse_attrs(fields[k], v, dims)
         IN IF r.kind = "Err" THEN "compile_error"
            ELSE IF r.kind = "Panic" THEN "panic"
            ELSE ExpandFrom(fields, k + 1, v, dims, errors \/ r.errors_occurred,
                            missing \/ ~r.patbits.some)

\* The item with, in every field, the attributes of the macro's variant only.
OwnItem == [k \in 1..Len(input.fields) |-> OnlyOwn(input.fields[k], input.encode_variant)]

\* C23: the position table resolved for the macro's LayoutVariant, and whether
\* a codec is generated for it, are those of the item without the #[pat_bits]
\* attributes of other variants: what these contain has no effect.
C23_VariantsIndependent ==
    Expanded =>
        /\ output = ExpandFrom(OwnItem, 1, input.encode_variant, input.idx_dims, FALSE, FALSE)
        /\ \A k \in 1..Len(obj_field_info) :
              obj_field_info[k]
                 = parse_attrs(OwnItem[k], input.encode_variant, input.idx_dims).patbits

\* #[bitfragment(variant = A, dimensions = 1)] on a field with
\* #[pat_bits(frag_variant = A, "0" = 1)] #[pat_bits("0" = (1, 2))]: the
\* two-component position of the other variant is reported and no codec is
\* generated for A, which the field's own attribute alone gives.
C23_OtherVariantRejects ==
    /\ output = "item" /\ input.encode_variant = "A" /\ input.idx_dims = 1
    /\ Len(input.fields) = 1 /\ Len(input.fields[1]) = 2
    /\ input.fields[1][1].frag_var = "A" /\ input.fields[1][2].frag_var = "none"
    /\ emitted = {DimMismatch}
    /\ ExpandFrom(OwnItem, 1, "A", 1, FALSE, FALSE) = "impl"

----------------------------------------------------------------------------
\* Alignment of the documentation table

\* The text of the first column on line k of the table of p (1 the header,
\* 2 the separator, 2 + i the row of variant i - 1), and of the second.
Column1(p, k) ==
    IF k = 1 THEN HeaderNames(p, 0)
    ELSE IF k = 2 THEN Repeat("-", BITS_COUNT(p))
    ELSE BitString(variantbits(p, k - 3))

Column2(p, k) ==
    LET name_w == Longest({variantname(p, i) : i \in 0..(VARIANT_COUNT(p) - 1)})
    IN IF k = 1 THEN Repeat(" ", name_w)
       ELSE IF k = 2 THEN Repeat("-", name_w)
       ELSE PadRight(variantname(p, k - 3), name_w)

\* The separator between the columns of line k.
ColumnSeparator(k) == IF k = 2 THEN "-+-" ELSE " | "

\* Line k begins with its first column, the separator, its second column and
\* the separator without what follows the "|" or "+".
LineBegins(p, k, rest) ==
    TableLines(p)[k] = Column1(p, k) \o ColumnSeparator(k) \o Column2(p, k)
                          \o (IF k = 2 THEN "-+-" ELSE IF k = 1 THEN " |" ELSE " | ") \o rest

\* What follows the second separator on line k.
Column3(p, k) ==
    IF k = 1 THEN ""
    ELSE IF k = 2
    THEN Repeat("-", Longest({variantdesc(p, i) : i \in 0..(VARIANT_COUNT(p) - 1)}))
    ELSE variantdesc(p, k - 3)

\* The character columns (from 0) of the first and the second separator of
\* line k.
FirstSeparatorAt(p, k) == Len(Column1(p, k)) + 1
SecondSeparatorAt(p, k) == Len(Column1(p, k)) + 3 + Len(Column2(p, k)) + 1

\* C24: on every line of the table of a Pattern (header, separator line, data
\* rows) the first column separator is at the same character column, and so
\* is the second, whatever the lengths of the bit names, variant names and
\* descriptions.
C24_ColumnsAligned ==
    ppc = "documented" =>
        /\ docs = JoinLines(TableLines(pat))
        /\ \A k \in 1..(VARIANT_COUNT(pat) + 2) :
             /\ LineBegins(pat, k, Column3(pat, k))
             /\ FirstSeparatorAt(pat, k) = FirstSeparatorAt(pat, 1)
             /\ SecondSeparatorAt(pat, k) = SecondSeparatorAt(pat, 1)

\* A Pattern with the bit names "lo" and "hi": the header's "|" is two
\* columns right of the "+" and "|" of the lines below it.
C24_Misaligned ==
    /\ ppc = "documented" /\ "bitnames" \in DOMAIN pat /\ pat.bitnames = <<"lo", "hi">>
    /\ pat.variants[1].name = "a" /\ pat.variants[2].name = "bb"
    /\ pat.variants[1].desc = "" /\ pat.variants[2].desc = "d"
    /\ docs = "lohi |    |\n---+----+--\n0x | a  | \n10 | bb | d\n"

----------------------------------------------------------------------------
\* Decode and the cells outside the layout

\* C25: decode is a function of the cells at the layout's resolved
\* coordinates.  A grid that differs from another in one cell that is none of
\* them decodes (at the same offset and mirror) to the same result, value,
\* error or failed grid access; grids that differ in several such cells are
\* joined by grids that differ in one.
C25_SchemaCellsOnly ==
    pc \in {"decoded", "decode_panicked"} =>
        \A rev \in BOOLEAN :
            result = FragDecode(ty, variant, fuses0, offset, mirror, extra, rev).res

\* SynthStruct decoded to an error from a grid whose last cell, outside the
\* layout at offset 0, was changed.
C25_Witness ==
    /\ pc = "decoded" /\ ty = "SynthStruct" /\ offset = <<0>> /\ ~mirror[1]
    /\ fuses # fuses0
    /\ GridGet(fuses, <<5>>) # GridGet(fuses0, <<5>>)
    /\ result.kind = "Err"

----------------------------------------------------------------------------
\* Encode over an encoded grid

\* The grid of the call's shape with b in every cell.
Blank(b) ==
    Grid(fuses0.len,
         IF Len(fuses0.len) = 1 THEN [i \in 1..fuses0.len[1] |-> b]
         ELSE [i \in 1..fuses0.len[1] |-> [j \in 1..fuses0.len[2] |-> b]])

\* The call's value encoded alone into grid g.
EncodedAlone(g, rev) ==
    FragEncode(ty, variant, value, g, offset, mirror, extra, WildBits(wild), rev).fuses

\* The layout's cells hold what encode of the value puts there whatever the
\* grid held; the grid is the one the second encode alone leaves from the
\* caller's grid; and if the two values are the same, the one the first left.
Overwritten ==
    \A rev \in BOOLEAN :
        /\ \A b \in BOOLEAN :
              LET g == EncodedAlone(Blank(b), rev)
              IN \A idx \in SchemaCells(CallLayout, offset, mirror) :
                    GridGet(fuses, idx) = GridGet(g, idx)
        /\ fuses = EncodedAlone(fuses0, rev)
        /\ first.value = value => fuses = first.fuses

\* Some entry of the call's layout is a constant.
HasConstant ==
    \E fi \in 1..Len(CallLayout.fields) : \E n \in DOMAIN CallLayout.fields[fi].patbits :
        CallLayout.fields[fi].patbits[n].pos.kind = "Bool"

\* C26 as stated: after encode(v1) and encode(v2) the layout's cells do not
\* depend on what the grid held, the grid is that of encode(v2) alone on the
\* original grid (that of the first encode if v1 = v2), and decode returns v2.
C26_DecodeReturnsSecond ==
    pc = "reencoded" =>
        /\ Overwritten
        /\ \A rev \in BOOLEAN :
              FragDecode(ty, variant, fuses, offset, mirror, extra, rev).res = Ok(value)

\* C26: encode overwrites and is idempotent.  After encode(v1) and encode(v2)
\* at one offset and mirror inside the grid, the layout's cells do not depend
\* on what the grid held, the grid is that of encode(v2) alone on the original
\* grid, and that of the first encode if v1 = v2; decode then returns what it
\* returns after encode(v2) alone, which is v2 for the layouts without a
\* constant entry.
C26_EncodeOverwrites ==
    /\ pc # "reencode_panicked"
    /\ pc = "reencoded" =>
        /\ Overwritten
        /\ \A rev \in BOOLEAN :
              LET res == FragDecode(ty, variant, fuses, offset, mirror, extra, rev).res
              IN /\ res = FragDecode(ty, variant, EncodedAlone(fuses0, rev), offset, mirror,
                                     extra, rev).res
                 /\ ~HasConstant => res = Ok(value)

\* MyEnum::Choice3 encoded over MyEnum::Choice2 at offset 1 of an all-true
\* grid, as in the basic_bitfragment_enum_encode test.
C26_Witness ==
    /\ pc = "reencoded" /\ ty = "MyEnum" /\ offset = <<1>> /\ ~mirror[1]
    /\ first.value = << <<"Choice2">> >> /\ value = << <<"Choice3">> >>
    /\ fuses0.cell = <<TRUE, TRUE, TRUE, TRUE>>
    /\ first.fuses.cell = <<TRUE, TRUE, FALSE, TRUE>>
    /\ fuses.cell = <<TRUE, TRUE, TRUE, FALSE>>


----------------------------------------------------------------------------
\* The #[bitpattern] enums of mc.rs are total and unambiguous.

\* A bit vector of the Pattern's length is at hand.
HasBits == ppc \in {"encoded", "supplied", "decoded", "redecoded"}

\* C27: for each pattern enum of mc.rs every bit vector of length BITS_COUNT
\* matches exactly one declared variant, 'x' and 'X' being wildcards: decode
\* never fails, and the first and the last matching variant are the same one.
C27_ExactlyOneVariant ==
    (pat \in McPatterns /\ HasBits) =>
        /\ Len(parr) = BITS_COUNT(pat)
        /\ Cardinality(Matching(pat, parr)) = 1
        /\ FirstMatch(Matching(pat, parr)) = LastMatch(Matching(pat, parr))
        /\ PatDecoded =>
              pres = Ok(pat.variants[LastMatch(Matching(pat, parr)) + 1].val)

\* XC2MCRegClkSrc decoded from 1,0,0, which only GCK0 ("x00") matches, by
\* its wildcard.
C27_Witness ==
    /\ ppc = "decoded" /\ pat = XC2MCRegClkSrc
    /\ parr = <<TRUE, FALSE, FALSE>>
    /\ Matching(pat, parr) = {0}
    /\ pres = Ok("GCK0")

----------------------------------------------------------------------------
\* The pictures of XC2Macrocell.

\* The LayoutVariant the call's tag and flag select.
ActiveVariant ==
    IF variant = "JedLarge"
    THEN (IF extra THEN "JedLargeBuried" ELSE "JedLargeUnburied")
    ELSE variant

\* The shape of a picture: the number of cells of each of its rows.
Shape(pict) == [y \in 1..Len(pict) |-> Len(pict[y])]

\* The picture has a cell that stands for a grid coordinate.
HasGridCell(pict) ==
    \E c \in PictCells(pict) : ~TokIsConst(pict[c[2] + 1][c[1] + 1])

\* No two (field, bit name) pairs of the call's layout resolve to one
\* coordinate, and what encode wrote it wrote once per cell.
CoordinatesDistinct ==
    LET s == CallLayout
        bits == LocBits(s)
    IN /\ Cardinality({Resolved(s, b) : b \in bits}) = Cardinality(bits)
       /\ pc = "encoded" =>
             /\ Cardinality({w[3] : w \in writes}) = Cardinality(writes)
             /\ Cardinality(writes) = Cardinality(bits)

\* The shapes of the pictures of the call's LayoutVariant; of those that have
\* a grid cell.
Shapes ==
    LET picts == Pictures(ActiveVariant)
    IN {Shape(picts[i]) : i \in 1..Len(picts)}
GridShapes ==
    LET picts == Pictures(ActiveVariant)
    IN {Shape(picts[i]) : i \in {k \in 1..Len(picts) : HasGridCell(picts[k])}}

\* C28 as stated: in every LayoutVariant of XC2Macrocell no two (field, bit
\* name) pairs have the same coordinate, and all the fields' pictures for the
\* variant have one shape.
C28_AllPicturesOneShape ==
    /\ CoordinatesDistinct
    /\ Cardinality(Shapes) = 1

\* C28: in every LayoutVariant of XC2Macrocell no two distinct (field, bit
\* name) pairs are mapped to the same grid coordinate, and the pictures that
\* have a grid cell have one shape per variant; the picture of a constant
\* (ff_in_ibuf under JedLargeBuried, "\n0=false") has its own.
C28_PicturesDisjoint ==
    /\ CoordinatesDistinct
    /\ Cardinality(GridShapes) = 1
    /\ Shapes # GridShapes <=> ActiveVariant = "JedLargeBuried"

\* Crbit32 encoded: seventeen cells of the 9 by 3 picture written, each once.
C28_Witness ==
    /\ pc = "encoded" /\ variant = "Crbit32"
    /\ Cardinality(writes) = 17
    /\ Cardinality({w[3] : w \in writes}) = 17
    /\ \A i \in 1..10 : Shape(Pictures("Crbit32")[i]) = <<9, 9, 9>>

----------------------------------------------------------------------------
\* ff_in_ibuf of a buried macrocell.

\* The field number (and, XC2Macrocell having no array, the element number)
\* of ff_in_ibuf.
FfInIbuf == 9

\* The call's value with ff_in_ibuf the other way.
OtherFfInIbuf == [value EXCEPT ![FfInIbuf] = <<~value[FfInIbuf][1]>>]

\* C29: under JedLargeBuried, and JedLarge with the buried flag true,
\* ff_in_ibuf is a constant false: encode writes no cell for it, so the grid
\* it leaves is the same for either value of ff_in_ibuf; decode reads no cell
\* for it and returns ff_in_ibuf == false.
C29_FfInIbufConstantFalse ==
    Buried =>
        /\ CallLayout.fields[FfInIbuf].patbits["0"] = PatBitInfo(FALSE, BoolPos(FALSE))
        /\ \A t \in writes \cup reads : t[1] # FfInIbuf
        /\ pc = "encoded" =>
              \A rev \in BOOLEAN :
                 LET r == FragEncode(ty, variant, OtherFfInIbuf, fuses0, offset, mirror,
                                     extra, WildBits(wild), rev)
                 IN r.fuses = fuses /\ r.writes = writes
        /\ pc = "decoded" =>
              /\ result.kind = "Ok"
              /\ result.val[FfInIbuf] = <<FALSE>>
        /\ pc # "decode_panicked"

\* A grid of ones decoded under JedLargeBuried: ff_in_ibuf is false, while
\* clk_invert_pol, read from a cell, is true.
C29_Witness ==
    /\ pc = "decoded" /\ variant = "JedLargeBuried" /\ value = NoValue
    /\ \A i \in 1..Len(fuses.cell) : fuses.cell[i]
    /\ result.kind = "Ok"
    /\ result.val[FfInIbuf] = <<FALSE>>
    /\ result.val[2] = <<TRUE>>
    /\ reads # {}

----------------------------------------------------------------------------
\* Position-expression resolution.

\* The position expression of the item's one setting, and its bit name.
TheExpr == input.fields[1][1].args[1].expr
TheBit == input.fields[1][1].args[1].bit_id

\* The number of '!' of the expression, and its innermost expression.
Nots(e) == Cardinality({i \in 1..Len(e) : e[i] = "not"})
Innermost(e) == e[Len(e)]

\* '!' and parentheses around a literal that resolves.
AroundLiteral(e) == Innermost(e) \in Literals

\* The field's attributes have been parsed.
FieldParsed == field_i = 1 \/ output \in {"compile_error", "panic"}

\* C30: position-expression resolution.  For n nested '!' and any number of
\* parentheses around a literal the resolved entry has invert == (n is odd)
\* and the position of the bare literal, and no invalid position expression is
\* reported; an expression of any other form (an innermost expression that
\* is no bool or integer literal or tuple of them) is reported as an invalid
\* position expression and no code is generated.
C30_Resolution ==
    /\ (FieldParsed /\ AroundLiteral(TheExpr)) =>
          /\ field_i = 1
          /\ obj_field_info[1].some
          /\ obj_field_info[1].v[TheBit] =
                PatBitInfo(Nots(TheExpr) % 2 = 1,
                           parse_pat_bits_expr(<<Innermost(TheExpr)>>).info.pos)
          /\ InvalidExpr \notin emitted
    /\ (FieldParsed /\ Innermost(TheExpr) \in {"other", "badtuple"}) =>
          /\ InvalidExpr \in emitted
          /\ errors_occurred
          /\ output \in {"none", "item"}

\* !(!(1, 2)) under dimensions = 2: the two '!' cancel, the entry is at
\* (1, 2) and not inverted, and the implementation is generated.
C30_Witness ==
    /\ TheExpr = <<"not", "paren", "not", "tuple">>
    /\ input.idx_dims = 2
    /\ obj_field_info = << Some(TheBit :> PatBitInfo(FALSE, Loc(<<1, 2>>))) >>
    /\ output = "impl"
====
